---- MODULE Spec2Model ----
(***************************************************************************)
(* A model of lexel (src/lexel.h), a configurable lexer.  The source text  *)
(* is a sequence of bytes, pointers into it are 0-based offsets, and each   *)
(* C function that takes `struct lxl_lexer *` is an operator from a lexer   *)
(* record to the lexer record it leaves behind (and its return value).      *)
(***************************************************************************)
EXTENDS Integers, Sequences, FiniteSets, TLC

VARIABLES
    cfg,     \* the configuration fields of struct lxl_lexer (set by the caller)
    src,     \* the bytes of the source, src[1] is the byte at `start`
    past,    \* the byte stored at `end` (one past the last source byte)
    lexer,   \* the cursor fields of struct lxl_lexer
    tok,     \* the token returned by the latest lxl_lexer_next_token call
    hist,    \* the tokens returned since construction or the latest reset
    first,   \* the tokens of the pass that the latest reset ended
    resets,  \* the number of lxl_lexer_reset calls so far
    lastOp,  \* the latest public operation: "new", "next" or "reset"
    call     \* the latest call of a cursor or match primitive on the lexer

vars == <<cfg, src, past, lexer, tok, hist, first, resets, lastOp, call>>

(***************************************************************************)
(* Bounds of the model.                                                     *)
(***************************************************************************)
MaxLen == 3      \* sources of every length up to MaxLen over a setup's alphabet
MaxToks == 5     \* hist records at most this many tokens of a pass
MaxResets == 1   \* lxl_lexer_reset is called at most this many times
MaxCalls == 2    \* primitives are called directly at most this many times in a row
MaxStep == 2     \* advance_by, rewind_by and match_string_n take n up to MaxStep

(***************************************************************************)
(* Bytes.  A byte is a one-character string; NUL and VT are named.  A C     *)
(* string is the sequence of its bytes without the terminating NUL.         *)
(***************************************************************************)
NUL == "NUL"
LF == "\n"
VT == "VT"

LXL_WHITESPACE_CHARS_NO_LF == <<" ", "\t", "\r", "\f", VT>>
LXL_WHITESPACE_CHARS == LXL_WHITESPACE_CHARS_NO_LF \o <<LF>>
LXL_BASIC_MIXED_LATIN_CHARS ==
    <<"A", "a", "B", "b", "C", "c", "D", "d", "E", "e", "F", "f", "G", "g",
      "H", "h", "I", "i", "J", "j", "K", "k", "L", "l", "M", "m", "N", "n",
      "O", "o", "P", "p", "Q", "q", "R", "r", "S", "s", "T", "t", "U", "u",
      "V", "v", "W", "w", "X", "x", "Y", "y", "Z", "z">>
LXL_DIGITS == <<"0", "1", "2", "3", "4", "5", "6", "7", "8", "9">>

(***************************************************************************)
(* Magic values: lexer status, error codes, special token types, and the    *)
(* caller's token types of src/example.c.                                   *)
(***************************************************************************)
LXL_LSTS_READY == "READY"
LXL_LSTS_LEXING == "LEXING"
LXL_LSTS_FINISHED == "FINISHED"
LXL_LSTS_FINISHED_ABNORMAL == "FINISHED_ABNORMAL"

LXL_LEX_SYMBOLIC == "SYMBOLIC"
LXL_LEX_WORD == "WORD"

LXL_STRING_LINE == "LINE"
LXL_STRING_MULTILINE == "MULTILINE"

LXL_LERR_OK == 0
LXL_LERR_GENERIC == -16
LXL_LERR_EOF == -17
LXL_LERR_UNCLOSED_COMMENT == -18
LXL_LERR_UNCLOSED_STRING == -19
LXL_LERR_INVALID_INTEGER == -20
LXL_LERR_INVALID_FLOAT == -21

LXL_TOKENS_END == -1
LXL_TOKEN_UNINIT == -2
LXL_TOKENS_END_ABNORMAL == -3
LXL_TOKEN_LINE_ENDING == -4
LXL_TOKEN_NO_TOKEN == -5

TOKEN_ID == 0
TOKEN_INT == 1
TOKEN_FLOAT == 2
TOKEN_STRING == 3
TOKEN_PLUS == 4
TOKEN_MINUS == 5
TOKEN_STAR == 6
TOKEN_COMMA == 8
TOKEN_LPAREN == 9
TOKEN_RPAREN == 10
TOKEN_DEF == 13

LXL_TOKEN_IS_END(t) ==
    t.token_type = LXL_TOKENS_END \/ t.token_type = LXL_TOKENS_END_ABNORMAL

LXL_TOKEN_IS_ERROR(t) == t.token_type <= LXL_LERR_GENERIC

(***************************************************************************)
(* The source buffer.  ByteAt(p) is the byte `start[p]`; the byte at `end`  *)
(* is whatever the caller's buffer holds there (`past`): the terminating    *)
(* NUL of a C string, or any byte when the source is a view into a larger   *)
(* buffer.                                                                  *)
(***************************************************************************)
ByteAt(p) == IF p < Len(src) THEN src[p + 1] ELSE past

InChars(c, chars) == \E i \in 1..Len(chars) : chars[i] = c

Truthy(c) == c # NUL

\* The element of a one-element set: ValueOf({e(x) : x \in {v}}) is e(v), with
\* v computed once, as a C local that holds a call's result.
ValueOf(S) == CHOOSE v \in S : TRUE

(***************************************************************************)
(* The source cursor.                                                       *)
(***************************************************************************)
lxl_lexer__head_length(L) == L.current - L.start

lxl_lexer__tail_length(L) == L.end - L.current

lxl_lexer__length_from(L, start_point) == L.current - start_point

lxl_lexer__length_to(L, end_point) == end_point - L.current

lxl_lexer__is_at_end(L) == L.current >= L.end

lxl_lexer__is_at_start(L) == L.current <= L.start

RECURSIVE ColumnScan(_, _)
ColumnScan(L, p) ==
    IF p = L.start \/ ByteAt(p) = LF THEN 0 ELSE 1 + ColumnScan(L, p - 1)

lxl_lexer__recalc_column(L) ==
    [L EXCEPT !.pos.column = ColumnScan(L, L.current)]

\* The offsets whose bytes lxl_lexer__recalc_column inspects: from `current`
\* down to the first line feed, `start` excluded.
recalc_column_reads(L) ==
    {p \in (L.start + 1)..L.current :
        \A q \in (p + 1)..L.current : ByteAt(q) # LF}

lxl_lexer__advance(L) ==
    IF lxl_lexer__is_at_end(L) THEN [lx |-> L, ret |-> NUL]
    ELSE [lx |-> [L EXCEPT
                    !.pos = IF ByteAt(L.current) # LF
                            THEN [line |-> @.line, column |-> @.column + 1]
                            ELSE [line |-> @.line + 1, column |-> 0],
                    !.current = @ + 1],
          ret |-> ByteAt(L.current)]

RECURSIVE lxl_lexer__advance_by(_, _)
lxl_lexer__advance_by(L, n) ==
    IF n <= 0 THEN [lx |-> lxl_lexer__recalc_column(L), ret |-> TRUE]
    ELSE IF lxl_lexer__is_at_end(L) THEN [lx |-> L, ret |-> FALSE]
    ELSE lxl_lexer__advance_by(
             [L EXCEPT !.current = @ + 1,
                       !.pos.line = IF ByteAt(L.current + 1) = LF
                                    THEN @ + 1 ELSE @],
             n - 1)

\* The offsets whose bytes lxl_lexer__advance_by inspects: each offset it
\* steps onto, and what recalc_column inspects when all n steps were made.
advance_by_reads(L, n) ==
    IF n <= lxl_lexer__tail_length(L)
    THEN (L.current + 1)..(L.current + n)
         \cup recalc_column_reads([L EXCEPT !.current = @ + n])
    ELSE (L.current + 1)..L.end

lxl_lexer__advance_to(L, future) ==
    lxl_lexer__advance_by(L, lxl_lexer__length_to(L, future))

lxl_lexer__rewind(L) ==
    IF lxl_lexer__is_at_start(L) THEN [lx |-> L, ret |-> FALSE]
    ELSE LET L1 == [L EXCEPT !.current = @ - 1]
         IN  IF ByteAt(L1.current) # LF
             THEN [lx |-> [L1 EXCEPT !.pos.column = @ - 1], ret |-> TRUE]
             ELSE [lx |-> [lxl_lexer__recalc_column(L1) EXCEPT
                              !.pos.line = @ - 1],
                   ret |-> TRUE]

RECURSIVE lxl_lexer__rewind_by(_, _)
lxl_lexer__rewind_by(L, n) ==
    IF n <= 0 THEN [lx |-> lxl_lexer__recalc_column(L), ret |-> TRUE]
    ELSE IF lxl_lexer__is_at_start(L) THEN [lx |-> L, ret |-> FALSE]
    ELSE lxl_lexer__rewind_by(
             [L EXCEPT !.current = @ - 1,
                       !.pos.line = IF ByteAt(L.current - 1) = LF
                                    THEN @ - 1 ELSE @],
             n - 1)

lxl_lexer__rewind_to(L, prev) ==
    lxl_lexer__rewind_by(L, lxl_lexer__length_from(L, prev))

\* An un-lex that rewinds to the start of the source.
unlex_to_source_start(L) == lxl_lexer__rewind_to(L, L.start).lx

lxl_lexer__unlex(L) == lxl_lexer__rewind_to(L, L.token_start).lx

\* The call of before_unlex_int_hook or before_unlex_float_hook, when the
\* one named is set.  The hook of the model notes that it was called, the
\* function that called it and where the cursor stood.
LXL_LEXER__CALL_HOOK0(L, hook, by) ==
    IF ~cfg[hook] THEN L
    ELSE [L EXCEPT !.events =
                       Append(@, [what |-> hook, by |-> by, at |-> L.current])]

\* The un-lex made by the function `by`, noted beside the hook calls with
\* the cursor it found.
UnlexBy(L, by) ==
    [lxl_lexer__unlex(L) EXCEPT
        !.events = Append(@, [what |-> "unlex", by |-> by, at |-> L.current])]

lxl_lexer__can_emit_line_ending(L) ==
    IF ~cfg.emit_line_endings THEN FALSE
    ELSE IF L.previous_token_type = LXL_TOKEN_LINE_ENDING
         THEN ~cfg.collect_line_endings
         ELSE TRUE

(***************************************************************************)
(* Match primitives that inspect without consuming: check_...  A function   *)
(* that returns a pointer into a list returns the 1-based index here, and   *)
(* 0 for NULL.  A NULL list is the empty sequence.                          *)
(***************************************************************************)
lxl_lexer__check_chars(L, chars) == InChars(ByteAt(L.current), chars)

\* The offsets whose bytes lxl_lexer__check_chars inspects: the byte at
\* `current`, unless the list is NULL or empty.
check_chars_reads(L, chars) == IF chars = <<>> THEN {} ELSE {L.current}

lxl_lexer__check_string(L, s) ==
    /\ Len(s) <= lxl_lexer__tail_length(L)
    /\ \A i \in 1..Len(s) : ByteAt(L.current + i - 1) = s[i]

\* strncmp over at most n bytes, n cut down to the bytes that remain: a
\* string shorter than that is compared up to its terminating NUL, which
\* only a zero byte of the source equals.
lxl_lexer__check_string_n(L, s, n) ==
    LET m == IF n > lxl_lexer__tail_length(L) THEN lxl_lexer__tail_length(L) ELSE n
    IN  IF m <= Len(s)
        THEN \A i \in 1..m : ByteAt(L.current + i - 1) = s[i]
        ELSE /\ \A i \in 1..Len(s) : ByteAt(L.current + i - 1) = s[i]
             /\ ByteAt(L.current + Len(s)) = NUL

\* The 1-based index of the first string of `strings` at the cursor, or 0.
FirstString(L, strings) ==
    LET hits == {i \in 1..Len(strings) : lxl_lexer__check_string(L, strings[i])}
    IN  IF hits = {} THEN 0 ELSE CHOOSE i \in hits : \A j \in hits : i <= j

lxl_lexer__check_strings(L, strings) == FirstString(L, strings) # 0

\* A check_whitespace that never counts the line feed as whitespace.
check_whitespace_never_lf(L) ==
    lxl_lexer__check_chars(L, LXL_WHITESPACE_CHARS_NO_LF)

lxl_lexer__check_whitespace(L) ==
    IF ~lxl_lexer__can_emit_line_ending(L)
    THEN lxl_lexer__check_chars(L, LXL_WHITESPACE_CHARS)
    ELSE lxl_lexer__check_chars(L, LXL_WHITESPACE_CHARS_NO_LF)

lxl_lexer__check_whitespace_with_lf(L) ==
    lxl_lexer__check_chars(L, LXL_WHITESPACE_CHARS)

lxl_lexer__check_line_comment(L) ==
    lxl_lexer__check_strings(L, cfg.line_comment_openers)

\* The 1-based index of the first delimiter pair whose opener is at the cursor.
FirstOpener(L, delims) ==
    LET hits == {i \in 1..Len(delims) :
                     lxl_lexer__check_string(L, delims[i].opener)}
    IN  IF hits = {} THEN 0 ELSE CHOOSE i \in hits : \A j \in hits : i <= j

lxl_lexer__check_nestable_comment(L) ==
    FirstOpener(L, cfg.nestable_comment_delims) # 0

lxl_lexer__check_unnestable_comment(L) ==
    FirstOpener(L, cfg.unnestable_comment_delims) # 0

lxl_lexer__check_block_comment(L) ==
    lxl_lexer__check_nestable_comment(L) \/ lxl_lexer__check_unnestable_comment(L)

StringDelims(string_type) ==
    IF string_type = LXL_STRING_LINE
    THEN cfg.line_string_delims ELSE cfg.multiline_string_delims

\* The opener is tested with check_chars: as a set of bytes, one byte read.
lxl_lexer__check_string_opener(L, string_type) ==
    LET delims == StringDelims(string_type)
        hits == {i \in 1..Len(delims) :
                     lxl_lexer__check_chars(L, delims[i].opener)}
    IN  IF hits = {} THEN 0 ELSE CHOOSE i \in hits : \A j \in hits : i <= j

DigitChars(base) ==
    LET digits == LXL_DIGITS \o LXL_BASIC_MIXED_LATIN_CHARS
        end_digit_index == IF base <= 10 THEN base ELSE 10 + 2 * (base - 10)
    IN  SubSeq(digits, 1, end_digit_index)

\* The value lxl_lexer__check_digit returns when its assertion holds.
lxl_lexer__check_digit(L, base) ==
    IF base = 0 THEN FALSE
    ELSE lxl_lexer__check_chars(L, DigitChars(base))

\* A library assertion: a failure ends the program, which the lexer records.
LXL_ASSERT(L, condition) ==
    IF condition THEN L ELSE [L EXCEPT !.assert_failed = TRUE]

\* The assertion made where a line feed is met: a line ending can be
\* emitted here.  Its failure is noted apart from the other assertions'.
AssertCanEmitLineEnding(L) ==
    IF lxl_lexer__can_emit_line_ending(L) THEN L
    ELSE [L EXCEPT !.assert_failed = TRUE, !.lf_assert_failed = TRUE]

\* The lexer after lxl_lexer__check_digit: the assertion on the base is
\* reached unless the base is 0.
lxl_lexer__check_digit_asserted(L, base) ==
    IF base = 0 THEN L ELSE LXL_ASSERT(L, 2 <= base /\ base <= 26)

lxl_lexer__check_digit_separator(L) ==
    lxl_lexer__check_chars(L, cfg.digit_separators)

lxl_lexer__check_digit_or_separator(L, base) ==
    lxl_lexer__check_digit(L, base) \/ lxl_lexer__check_digit_separator(L)

lxl_lexer__check_int_suffix(L) ==
    lxl_lexer__check_strings(L, cfg.integer_suffixes)

lxl_lexer__check_float_suffix(L) ==
    lxl_lexer__check_strings(L, cfg.float_suffixes)

lxl_lexer__check_number_sign(L) ==
    lxl_lexer__check_strings(L, cfg.number_signs)

lxl_lexer__check_radix_separator(L) ==
    lxl_lexer__check_strings(L, cfg.radix_separators)

lxl_lexer__check_exponent_sign(L) ==
    lxl_lexer__check_strings(L, cfg.exponent_signs)

lxl_lexer__check_punct(L) == FirstString(L, cfg.puncts)

lxl_lexer__check_reserved(L) ==
    \/ lxl_lexer__check_whitespace_with_lf(L)
    \/ lxl_lexer__check_line_comment(L)
    \/ lxl_lexer__check_block_comment(L)
    \/ lxl_lexer__check_string_opener(L, LXL_STRING_LINE) # 0
    \/ lxl_lexer__check_string_opener(L, LXL_STRING_MULTILINE) # 0
    \/ lxl_lexer__check_punct(L) # 0

(***************************************************************************)
(* Match primitives that consume on success: match_...                      *)
(***************************************************************************)
lxl_lexer__match_chars(L, chars) ==
    IF lxl_lexer__check_chars(L, chars)
    THEN [lx |-> lxl_lexer__advance(L).lx, ret |-> TRUE]
    ELSE [lx |-> L, ret |-> FALSE]

lxl_lexer__match_string(L, s) ==
    IF lxl_lexer__check_string(L, s)
    THEN lxl_lexer__advance_by(L, Len(s))
    ELSE [lx |-> L, ret |-> FALSE]

\* advance_by is called with n as given, not cut down to the bytes that remain.
lxl_lexer__match_string_n(L, s, n) ==
    IF lxl_lexer__check_string_n(L, s, n)
    THEN lxl_lexer__advance_by(L, n)
    ELSE [lx |-> L, ret |-> FALSE]

\* A failed match_string consumes nothing, so the loop over the list ends at
\* the first string that is at the cursor.
lxl_lexer__match_strings(L, strings) ==
    LET i == FirstString(L, strings)
    IN  IF i = 0 THEN [lx |-> L, ret |-> FALSE]
        ELSE lxl_lexer__match_string(L, strings[i])

lxl_lexer__match_string_opener(L, string_type) ==
    LET i == lxl_lexer__check_string_opener(L, string_type)
    IN  IF i = 0 THEN [lx |-> L, ret |-> 0]
        ELSE [lx |-> lxl_lexer__advance(L).lx, ret |-> i]

lxl_lexer__match_digit(L, base) ==
    ValueOf({
        IF ~lxl_lexer__check_digit(A, base) THEN [lx |-> A, ret |-> FALSE]
        ELSE ValueOf({ [lx |-> a.lx, ret |-> Truthy(a.ret)] :
                       a \in {lxl_lexer__advance(A)} }) :
        A \in {lxl_lexer__check_digit_asserted(L, base)} })

lxl_lexer__match_digit_separator(L) ==
    IF ~lxl_lexer__check_digit_separator(L) THEN [lx |-> L, ret |-> FALSE]
    ELSE ValueOf({ [lx |-> a.lx, ret |-> Truthy(a.ret)] :
                   a \in {lxl_lexer__advance(L)} })

lxl_lexer__match_number_sign(L) == lxl_lexer__match_strings(L, cfg.number_signs)

lxl_lexer__match_radix_separator(L) ==
    lxl_lexer__match_strings(L, cfg.radix_separators)

lxl_lexer__match_exponent_sign(L) ==
    lxl_lexer__match_strings(L, cfg.exponent_signs)

lxl_lexer__match_int_suffix(L) ==
    lxl_lexer__match_strings(L, cfg.integer_suffixes)

\* A match_int_prefix that takes a digit separator for the start of a number.
match_int_prefix_at_separator(L) ==
    ValueOf({
        ValueOf({
            IF i # 0
            THEN [lx |-> lxl_lexer__match_string(L1, cfg.integer_prefixes[i]).lx,
                  ret |-> cfg.integer_bases[i]]
            ELSE [lx |-> lxl_lexer__check_digit_asserted(L1, cfg.default_int_base),
                  ret |-> IF lxl_lexer__check_digit_or_separator(
                                 L1, cfg.default_int_base)
                          THEN cfg.default_int_base ELSE 0] :
            i \in {FirstString(L1, cfg.integer_prefixes)} }) :
        L1 \in {lxl_lexer__match_number_sign(L).lx} })

\* The number sign stays consumed whatever is returned.
lxl_lexer__match_int_prefix(L) ==
    ValueOf({
        ValueOf({
            IF i # 0
            THEN [lx |-> lxl_lexer__match_string(L1, cfg.integer_prefixes[i]).lx,
                  ret |-> cfg.integer_bases[i]]
            ELSE [lx |-> lxl_lexer__check_digit_asserted(L1, cfg.default_int_base),
                  ret |-> IF lxl_lexer__check_digit(L1, cfg.default_int_base)
                          THEN cfg.default_int_base ELSE 0] :
            i \in {FirstString(L1, cfg.integer_prefixes)} }) :
        L1 \in {lxl_lexer__match_number_sign(L).lx} })

\* ret is the base (0: no prefix), marker the exponent marker written through
\* OUT_exponent_marker (left as it was when 0 is returned).
lxl_lexer__match_float_prefix(L, marker) ==
    ValueOf({
        ValueOf({
            IF i # 0
            THEN [lx |-> lxl_lexer__match_string(L1, cfg.float_prefixes[i]).lx,
                  ret |-> cfg.float_bases[i], marker |-> cfg.exponent_markers[i]]
            ELSE IF ~lxl_lexer__check_digit(L1, cfg.default_float_base)
            THEN [lx |-> lxl_lexer__check_digit_asserted(L1, cfg.default_float_base),
                  ret |-> 0, marker |-> marker]
            ELSE [lx |-> lxl_lexer__check_digit_asserted(L1, cfg.default_float_base),
                  ret |-> cfg.default_float_base,
                  marker |-> cfg.default_exponent_marker] :
            i \in {FirstString(L1, cfg.float_prefixes)} }) :
        L1 \in {lxl_lexer__match_number_sign(L).lx} })

\* The number sign is consumed first; the lexer is rewound to where it was
\* only when a prefix of the list is found.
lxl_lexer__check_int_prefix(L) ==
    ValueOf({
        ValueOf({
            IF i # 0
            THEN [lx |-> lxl_lexer__rewind_to(L1, L.current).lx,
                  ret |-> cfg.integer_bases[i]]
            ELSE [lx |-> lxl_lexer__check_digit_asserted(L1, cfg.default_int_base),
                  ret |-> IF lxl_lexer__check_digit(L1, cfg.default_int_base)
                          THEN cfg.default_int_base ELSE 0] :
            i \in {FirstString(L1, cfg.integer_prefixes)} }) :
        L1 \in {lxl_lexer__match_number_sign(L).lx} })

\* The number sign is consumed first; the lexer is rewound to where it was
\* on every path, and the default base is tested there.
lxl_lexer__check_float_prefix(L, marker) ==
    ValueOf({
        ValueOf({
            IF i # 0
            THEN [lx |-> lxl_lexer__rewind_to(L1, L.current).lx,
                  ret |-> cfg.float_bases[i], marker |-> cfg.exponent_markers[i]]
            ELSE ValueOf({
                     IF ~lxl_lexer__check_digit(L2, cfg.default_float_base)
                     THEN [lx |-> lxl_lexer__check_digit_asserted(
                                      L2, cfg.default_float_base),
                           ret |-> 0, marker |-> marker]
                     ELSE [lx |-> lxl_lexer__check_digit_asserted(
                                      L2, cfg.default_float_base),
                           ret |-> cfg.default_float_base,
                           marker |-> cfg.default_exponent_marker] :
                     L2 \in {lxl_lexer__rewind_to(L1, L.current).lx} }) :
            i \in {FirstString(L1, cfg.float_prefixes)} }) :
        L1 \in {lxl_lexer__match_number_sign(L).lx} })

\* A match_punct that takes the longest entry that stands at the cursor.
match_punct_longest(L) ==
    LET hits == {i \in 1..Len(cfg.puncts) : lxl_lexer__check_string(L, cfg.puncts[i])}
    IN  IF hits = {} THEN [lx |-> L, ret |-> 0]
        ELSE \* the longest of them
             LET i == CHOOSE k \in hits :
                          \A j \in hits : Len(cfg.puncts[j]) <= Len(cfg.puncts[k])
             IN  [lx |-> lxl_lexer__match_string(L, cfg.puncts[i]).lx, ret |-> i]

lxl_lexer__match_punct(L) ==
    LET i == lxl_lexer__check_punct(L)
    IN  IF i = 0 THEN [lx |-> L, ret |-> 0]
        ELSE [lx |-> lxl_lexer__match_string(L, cfg.puncts[i]).lx, ret |-> i]

(***************************************************************************)
(* Skip primitives.  The byte counts they return are used by no caller,     *)
(* except the count of skip_block_comment, which is measured from           *)
(* lexer->start.                                                            *)
(***************************************************************************)
\* A skip_line that does not stop at the line feed.
RECURSIVE skip_line_past_lf(_)
skip_line_past_lf(L) ==
    ValueOf({ IF ~Truthy(a.ret) THEN a.lx ELSE skip_line_past_lf(a.lx) :
              a \in {lxl_lexer__advance(L)} })

\* A skip_line that consumes the line feed that ends the line.
RECURSIVE skip_line_with_lf(_)
skip_line_with_lf(L) ==
    IF lxl_lexer__check_chars(L, <<LF>>) THEN lxl_lexer__advance(L).lx
    ELSE ValueOf({ IF ~Truthy(a.ret) THEN a.lx ELSE skip_line_with_lf(a.lx) :
                   a \in {lxl_lexer__advance(L)} })

RECURSIVE lxl_lexer__skip_line(_)
lxl_lexer__skip_line(L) ==
    IF lxl_lexer__check_chars(L, <<LF>>) THEN L
    ELSE ValueOf({ IF ~Truthy(a.ret) THEN a.lx ELSE lxl_lexer__skip_line(a.lx) :
                   a \in {lxl_lexer__advance(L)} })

\* A skip_block_comment that raises no error where the source ends.
RECURSIVE skip_block_comment_without_error(_, _, _)
skip_block_comment_without_error(L, delims, nestable) ==
    ValueOf({
        IF c.ret
        THEN [lx |-> c.lx, ret |-> lxl_lexer__length_from(c.lx, L.start)]
        ELSE IF nestable /\ lxl_lexer__check_string(L, delims.opener)
        THEN ValueOf({
                 skip_block_comment_without_error(inner.lx, delims, nestable) :
                 inner \in {skip_block_comment_without_error(
                                lxl_lexer__match_string(L, delims.opener).lx,
                                delims, TRUE)} })
        ELSE ValueOf({
                 IF ~Truthy(a.ret)
                 THEN [lx |-> a.lx, ret |-> lxl_lexer__length_from(a.lx, L.start)]
                 ELSE skip_block_comment_without_error(a.lx, delims, nestable) :
                 a \in {lxl_lexer__advance(L)} }) :
        c \in {lxl_lexer__match_string(L, delims.closer)} })

\* comment_start is lexer->start, and the count is measured from it.
RECURSIVE lxl_lexer__skip_block_comment(_, _, _)
lxl_lexer__skip_block_comment(L, delims, nestable) ==
    ValueOf({
        IF c.ret
        THEN [lx |-> c.lx, ret |-> lxl_lexer__length_from(c.lx, L.start)]
        ELSE IF nestable /\ lxl_lexer__check_string(L, delims.opener)
        THEN ValueOf({
                 IF inner.ret <= 0
                 THEN [lx |-> [inner.lx EXCEPT
                                  !.error = LXL_LERR_UNCLOSED_COMMENT,
                                  !.raised = LXL_LERR_UNCLOSED_COMMENT],
                       ret |-> lxl_lexer__length_from(inner.lx, L.start)]
                 ELSE lxl_lexer__skip_block_comment(inner.lx, delims, nestable) :
                 inner \in {lxl_lexer__skip_block_comment(
                                lxl_lexer__match_string(L, delims.opener).lx,
                                delims, TRUE)} })
        ELSE ValueOf({
                 IF ~Truthy(a.ret)
                 THEN [lx |-> [a.lx EXCEPT !.error = LXL_LERR_UNCLOSED_COMMENT,
                                           !.raised = LXL_LERR_UNCLOSED_COMMENT],
                       ret |-> lxl_lexer__length_from(a.lx, L.start)]
                 ELSE lxl_lexer__skip_block_comment(a.lx, delims, nestable) :
                 a \in {lxl_lexer__advance(L)} }) :
        c \in {lxl_lexer__match_string(L, delims.closer)} })

lxl_lexer__match_line_comment(L) ==
    IF ~lxl_lexer__check_line_comment(L) THEN [lx |-> L, ret |-> FALSE]
    ELSE [lx |-> lxl_lexer__skip_line(L), ret |-> TRUE]

\* A match_nestable_comment that skips its comment without nesting.
match_nestable_comment_unnested(L) ==
    ValueOf({
        IF i = 0 THEN [lx |-> L, ret |-> FALSE]
        ELSE [lx |-> lxl_lexer__skip_block_comment(
                         lxl_lexer__match_string(
                             L, cfg.nestable_comment_delims[i].opener).lx,
                         cfg.nestable_comment_delims[i], FALSE).lx,
              ret |-> TRUE] :
        i \in {FirstOpener(L, cfg.nestable_comment_delims)} })

lxl_lexer__match_nestable_comment(L) ==
    ValueOf({
        IF i = 0 THEN [lx |-> L, ret |-> FALSE]
        ELSE [lx |-> lxl_lexer__skip_block_comment(
                         lxl_lexer__match_string(
                             L, cfg.nestable_comment_delims[i].opener).lx,
                         cfg.nestable_comment_delims[i], TRUE).lx,
              ret |-> TRUE] :
        i \in {FirstOpener(L, cfg.nestable_comment_delims)} })

lxl_lexer__match_unnestable_comment(L) ==
    ValueOf({
        IF i = 0 THEN [lx |-> L, ret |-> FALSE]
        ELSE [lx |-> lxl_lexer__skip_block_comment(
                         lxl_lexer__match_string(
                             L, cfg.unnestable_comment_delims[i].opener).lx,
                         cfg.unnestable_comment_delims[i], FALSE).lx,
              ret |-> TRUE] :
        i \in {FirstOpener(L, cfg.unnestable_comment_delims)} })

lxl_lexer__match_block_comment(L) ==
    ValueOf({ IF n.ret THEN n ELSE lxl_lexer__match_unnestable_comment(L) :
              n \in {lxl_lexer__match_nestable_comment(L)} })

RECURSIVE lxl_lexer__skip_whitespace(_)
lxl_lexer__skip_whitespace(L) ==
    IF lxl_lexer__check_whitespace(L)
    THEN ValueOf({ IF ~Truthy(a.ret) THEN a.lx
                   ELSE lxl_lexer__skip_whitespace(a.lx) :
                   a \in {lxl_lexer__advance(L)} })
    ELSE IF lxl_lexer__check_string(L, <<LF>>) THEN AssertCanEmitLineEnding(L)
    ELSE ValueOf({
             IF lc.ret THEN lxl_lexer__skip_whitespace(lc.lx)
             ELSE ValueOf({ IF bc.ret THEN lxl_lexer__skip_whitespace(bc.lx)
                            ELSE L :
                            bc \in {lxl_lexer__match_block_comment(L)} }) :
             lc \in {lxl_lexer__match_line_comment(L)} })

(***************************************************************************)
(* Tokens.  A token is [start, end, loc, token_type]; an operator that      *)
(* builds one returns the lexer as lx and the token as tok.                 *)
(***************************************************************************)
lxl_lexer__start_token(L) ==
    [lx |-> [L EXCEPT !.status = IF @ = LXL_LSTS_READY THEN LXL_LSTS_LEXING ELSE @,
                      !.token_start = L.current],
     tok |-> [start |-> L.current, end |-> L.current, loc |-> L.pos,
              token_type |-> LXL_TOKEN_UNINIT]]

\* The call of after_token_hook, when one is set.  The hook of the model
\* keeps count of its calls and notes the token and the previous_token_type
\* it is called with.
LXL_LEXER__CALL_HOOKN(L, token) ==
    IF ~cfg.after_token_hook THEN L
    ELSE [L EXCEPT !.hook_count = @ + 1,
                   !.hook_seen = [token |-> token,
                                  previous_token_type |-> L.previous_token_type]]

\* A finish_token that calls the hook first and finalises the token after.
finish_token_hook_first(L, token) ==
    LET type == IF L.error # LXL_LERR_OK THEN L.error ELSE token.token_type
    IN  [lx |-> [LXL_LEXER__CALL_HOOKN(L, token) EXCEPT
                    !.error = LXL_LERR_OK,
                    !.previous_token_type = type,
                    !.status = IF @ = LXL_LSTS_LEXING
                               THEN LXL_LSTS_READY ELSE @],
         tok |-> [token EXCEPT !.end = L.current, !.token_type = type]]

\* A finish_token that leaves the error where it is.
finish_token_keeping_error(L, token) ==
    [lx |-> LXL_LEXER__CALL_HOOKN(
                [L EXCEPT !.previous_token_type = token.token_type,
                          !.status = IF @ = LXL_LSTS_LEXING
                                     THEN LXL_LSTS_READY ELSE @],
                [token EXCEPT !.end = L.current]),
     tok |-> [token EXCEPT !.end = L.current]]

lxl_lexer__finish_token(L, token) ==
    ValueOf({
        [lx |-> LXL_LEXER__CALL_HOOKN(
                    [L EXCEPT !.error = LXL_LERR_OK,
                              !.previous_token_type = type,
                              !.status = IF @ = LXL_LSTS_LEXING
                                         THEN LXL_LSTS_READY ELSE @],
                    [token EXCEPT !.end = L.current, !.token_type = type]),
         tok |-> [token EXCEPT !.end = L.current, !.token_type = type]] :
        type \in {IF L.error # LXL_LERR_OK THEN L.error ELSE token.token_type} })

\* A create_end_token that leaves the status as it was.
create_end_token_same_status(L) ==
    LET s == lxl_lexer__start_token(L)
    IN  lxl_lexer__finish_token(
            s.lx, [s.tok EXCEPT !.token_type = LXL_TOKENS_END])

lxl_lexer__create_end_token(L) ==
    LET s == lxl_lexer__start_token(L)
    IN  IF s.lx.status # LXL_LSTS_FINISHED_ABNORMAL
        THEN lxl_lexer__finish_token(
                 [s.lx EXCEPT !.status = LXL_LSTS_FINISHED],
                 [s.tok EXCEPT !.token_type = LXL_TOKENS_END])
        ELSE lxl_lexer__finish_token(
                 s.lx, [s.tok EXCEPT !.token_type = LXL_TOKENS_END_ABNORMAL])

\* A create_error_token after which the lexer has finished abnormally.
create_error_token_finishing_abnormally(L) ==
    LET s == lxl_lexer__start_token(L)
    IN  lxl_lexer__finish_token(
            [s.lx EXCEPT !.error = IF @ = LXL_LERR_OK THEN LXL_LERR_GENERIC ELSE @,
                         !.raised = IF s.lx.error = LXL_LERR_OK
                                    THEN LXL_LERR_GENERIC ELSE @,
                         !.status = LXL_LSTS_FINISHED_ABNORMAL],
            s.tok)

lxl_lexer__create_error_token(L) ==
    LET s == lxl_lexer__start_token(L)
    IN  lxl_lexer__finish_token(
            [s.lx EXCEPT !.error = IF @ = LXL_LERR_OK THEN LXL_LERR_GENERIC ELSE @,
                         !.raised = IF s.lx.error = LXL_LERR_OK
                                    THEN LXL_LERR_GENERIC ELSE @],
            s.tok)

(***************************************************************************)
(* Sub-scanners.                                                            *)
(***************************************************************************)
RECURSIVE lxl_lexer__lex_symbolic(_)
lxl_lexer__lex_symbolic(L) ==
    IF ~lxl_lexer__is_at_end(L) /\ ~lxl_lexer__check_whitespace(L)
    THEN lxl_lexer__lex_symbolic(lxl_lexer__advance(L).lx)
    ELSE L

RECURSIVE lxl_lexer__lex_word(_)
lxl_lexer__lex_word(L) ==
    IF ~lxl_lexer__is_at_end(L) /\ ~lxl_lexer__check_reserved(L)
    THEN lxl_lexer__lex_word(lxl_lexer__advance(L).lx)
    ELSE L

\* After a string escape character the closer, if it is there, is consumed;
\* then one more byte is consumed.
RECURSIVE lxl_lexer__lex_string(_, _, _)
lxl_lexer__lex_string(L, closer, string_type) ==
    ValueOf({
        IF c.ret THEN c.lx
        ELSE ValueOf({
                 ValueOf({
                     IF \/ ~Truthy(a.ret)
                        \/ (a.ret = LF /\ string_type = LXL_STRING_LINE)
                     THEN [a.lx EXCEPT !.error = LXL_LERR_UNCLOSED_STRING,
                                       !.raised = LXL_LERR_UNCLOSED_STRING]
                     ELSE lxl_lexer__lex_string(a.lx, closer, string_type) :
                     a \in {lxl_lexer__advance(
                                IF e.ret
                                THEN lxl_lexer__match_string(e.lx, closer).lx
                                ELSE L)} }) :
                 e \in {lxl_lexer__match_chars(L, cfg.string_escape_chars)} }) :
        c \in {lxl_lexer__match_string(L, closer)} })

\* A digit loop that counts a digit separator as a digit.
RECURSIVE DigitRunCountingSeparators(_, _, _)
DigitRunCountingSeparators(L, base, digit_count) ==
    ValueOf({
        IF d.ret THEN DigitRunCountingSeparators(d.lx, base, digit_count + 1)
        ELSE ValueOf({
                 IF s.ret
                 THEN DigitRunCountingSeparators(s.lx, base, digit_count + 1)
                 ELSE [lx |-> s.lx, ret |-> digit_count] :
                 s \in {lxl_lexer__match_digit_separator(d.lx)} }) :
        d \in {lxl_lexer__match_digit(L, base)} })

\* The loop of lex_integer: lx after the run, ret the number of digits in it.
RECURSIVE DigitRun(_, _, _)
DigitRun(L, base, digit_count) ==
    ValueOf({
        IF d.ret THEN DigitRun(d.lx, base, digit_count + 1)
        ELSE ValueOf({
                 IF s.ret THEN DigitRun(s.lx, base, digit_count)
                 ELSE [lx |-> s.lx, ret |-> digit_count] :
                 s \in {lxl_lexer__match_digit_separator(d.lx)} }) :
        d \in {lxl_lexer__match_digit(L, base)} })

\* A lex_integer that un-lexes first and calls the hook after.
lex_integer_hook_after_unlex(L, base) ==
    ValueOf({
        IF run.ret <= 0
        THEN [lx |-> LXL_LEXER__CALL_HOOK0(
                         UnlexBy(run.lx, "lex_integer"),
                         "before_unlex_int_hook", "lex_integer"),
              ret |-> 0]
        ELSE [lx |-> run.lx, ret |-> lxl_lexer__length_from(run.lx, L.current)] :
        run \in {DigitRun(L, base, 0)} })

\* start is the cursor on entry; the un-lex goes back to token_start.
lxl_lexer__lex_integer(L, base) ==
    ValueOf({
        IF run.ret <= 0
        THEN [lx |-> UnlexBy(LXL_LEXER__CALL_HOOK0(
                                 run.lx, "before_unlex_int_hook", "lex_integer"),
                             "lex_integer"),
              ret |-> 0]
        ELSE [lx |-> run.lx, ret |-> lxl_lexer__length_from(run.lx, L.current)] :
        run \in {DigitRun(L, base, 0)} })

\* A lex_float that stops after the radix separator.
lex_float_without_fraction(L, base, exponent_marker) ==
    ValueOf({
        ValueOf({
            IF int.ret <= 0
            THEN [lx |-> UnlexBy(LXL_LEXER__CALL_HOOK0(
                                     rad.lx, "before_unlex_float_hook", "lex_float"),
                                 "lex_float"),
                  ret |-> 0]
            ELSE [lx |-> rad.lx,
                  ret |-> lxl_lexer__length_from(rad.lx, L.current)] :
            rad \in {lxl_lexer__match_radix_separator(int.lx)} }) :
        int \in {lxl_lexer__lex_integer(L, base)} })

\* The exponent part of lex_float, from the lexer after the fractional part:
\* lx after it, ret its digit length.
LexExponent(L, base, exponent_marker) ==
    ValueOf({
        IF mark.ret
        THEN lxl_lexer__lex_integer(
                 lxl_lexer__match_exponent_sign(mark.lx).lx, base)
        ELSE [lx |-> mark.lx, ret |-> 0] :
        mark \in {lxl_lexer__match_string(L, exponent_marker)} })

\* start is the cursor on entry; int, frac and exp are the three integer
\* sub-scans, each of which may un-lex to token_start.
lxl_lexer__lex_float(L, base, exponent_marker) ==
    ValueOf({
        ValueOf({
            ValueOf({
                IF int.ret + frac.ret + exp.ret <= 0
                THEN [lx |-> UnlexBy(LXL_LEXER__CALL_HOOK0(
                                         exp.lx, "before_unlex_float_hook",
                                         "lex_float"),
                                     "lex_float"),
                      ret |-> 0]
                ELSE [lx |-> exp.lx,
                      ret |-> lxl_lexer__length_from(exp.lx, L.current)] :
                exp \in {LexExponent(frac.lx, base, exponent_marker)} }) :
            frac \in {ValueOf({
                          IF rad.ret THEN lxl_lexer__lex_integer(rad.lx, base)
                          ELSE [lx |-> rad.lx, ret |-> 0] :
                          rad \in {lxl_lexer__match_radix_separator(int.lx)} })} }) :
        int \in {lxl_lexer__lex_integer(L, base)} })

\* A get_word_type that takes a word for a keyword it starts with.
get_word_type_by_prefix(L, word_start) ==
    LET word_length == lxl_lexer__length_from(L, word_start)
        hits == {i \in 1..Len(cfg.keywords) :
                    /\ Len(cfg.keywords[i]) <= word_length
                    /\ \A k \in 1..Len(cfg.keywords[i]) :
                           ByteAt(word_start + k - 1) = cfg.keywords[i][k]}
    IN  IF hits = {} THEN cfg.default_word_type
        ELSE cfg.keyword_types[CHOOSE i \in hits : \A j \in hits : i <= j]

\* The lexer after lxl_lexer__get_word_type: with keywords configured, the
\* assertion that the word is not empty is reached.
lxl_lexer__get_word_type_asserted(L, word_start) ==
    IF cfg.keywords = <<>> THEN L
    ELSE LXL_ASSERT(L, lxl_lexer__length_from(L, word_start) > 0)

lxl_lexer__get_word_type(L, word_start) ==
    LET word_length == lxl_lexer__length_from(L, word_start)
        hits == {i \in 1..Len(cfg.keywords) :
                    /\ Len(cfg.keywords[i]) = word_length
                    /\ \A k \in 1..word_length :
                           ByteAt(word_start + k - 1) = cfg.keywords[i][k]}
    IN  IF hits = {} THEN cfg.default_word_type
        ELSE cfg.keyword_types[CHOOSE i \in hits : \A j \in hits : i <= j]

(***************************************************************************)
(* The dispatch engine.                                                     *)
(***************************************************************************)
lxl_lexer_is_finished(L) ==
    L.status = LXL_LSTS_FINISHED \/ L.status = LXL_LSTS_FINISHED_ABNORMAL

\* The label try_lex_float: L is the lexer after the float prefix.
TryLexFloat(L, token, number_base, exponent_marker) ==
    ValueOf({
        lxl_lexer__finish_token(
            f.lx,
            [token EXCEPT !.token_type = IF f.ret # 0 THEN cfg.default_float_type
                                         ELSE LXL_LERR_INVALID_FLOAT]) :
        f \in {lxl_lexer__lex_float(L, number_base, exponent_marker)} })

\* The end of the integer branch: the integer suffix, then finish_token.
FinishInteger(L, token, type) ==
    lxl_lexer__finish_token(
        lxl_lexer__match_int_suffix(L).lx, [token EXCEPT !.token_type = type])

\* The re-lex of an integer that stands before a radix separator: un-lex,
\* then the float prefix.
RelexAsFloat(L, token) ==
    ValueOf({
        IF fp.ret # 0 THEN TryLexFloat(fp.lx, token, fp.ret, fp.marker)
        ELSE FinishInteger(fp.lx, token, LXL_LERR_INVALID_INTEGER) :
        fp \in {lxl_lexer__match_float_prefix(
                    UnlexBy(LXL_LEXER__CALL_HOOK0(
                                L, "before_unlex_int_hook", "next_token"),
                            "next_token"),
                    <<>>)} })

\* An integer branch that re-lexes every integer as a float when floats
\* are enabled, whether a radix separator follows or not.
lex_integer_branch_always_relex(L, token, number_base) ==
    ValueOf({
        IF i.ret # 0
        THEN IF cfg.default_float_base # 0
             THEN RelexAsFloat(i.lx, token)
             ELSE FinishInteger(i.lx, token, cfg.default_int_type)
        ELSE FinishInteger(i.lx, token, LXL_LERR_INVALID_INTEGER) :
        i \in {lxl_lexer__lex_integer(L, number_base)} })

\* The branch taken when lxl_lexer__match_int_prefix returned number_base.
LexIntegerBranch(L, token, number_base) ==
    ValueOf({
        IF i.ret # 0
        THEN IF /\ lxl_lexer__check_radix_separator(i.lx)
                /\ cfg.default_float_base # 0
             THEN RelexAsFloat(i.lx, token)
             ELSE FinishInteger(i.lx, token, cfg.default_int_type)
        ELSE FinishInteger(i.lx, token, LXL_LERR_INVALID_INTEGER) :
        i \in {lxl_lexer__lex_integer(L, number_base)} })

\* The last branch: a word, by the word lexing rule.
LexWordBranch(L, token) ==
    ValueOf({
        lxl_lexer__finish_token(
            lxl_lexer__get_word_type_asserted(w, token.start),
            [token EXCEPT
                !.token_type = lxl_lexer__get_word_type(w, token.start)]) :
        w \in {IF cfg.word_lexing_rule = LXL_LEX_SYMBOLIC
               THEN lxl_lexer__lex_symbolic(L) ELSE lxl_lexer__lex_word(L)} })

\* The branches after the string openers: numbers, punctuation, words.  A
\* prefix match that fails hands on the lexer as it left it.
DispatchNumber(L, token) ==
    ValueOf({
        IF ip.ret # 0 THEN LexIntegerBranch(ip.lx, token, ip.ret)
        ELSE ValueOf({
                 IF fp.ret # 0 THEN TryLexFloat(fp.lx, token, fp.ret, fp.marker)
                 ELSE ValueOf({
                          IF pu.ret # 0
                          THEN lxl_lexer__finish_token(
                                   pu.lx,
                                   [token EXCEPT
                                       !.token_type = cfg.punct_types[pu.ret]])
                          ELSE LexWordBranch(pu.lx, token) :
                          pu \in {lxl_lexer__match_punct(fp.lx)} }) :
                 fp \in {lxl_lexer__match_float_prefix(ip.lx, <<>>)} }) :
        ip \in {lxl_lexer__match_int_prefix(L)} })

\* The branches of the string openers.
DispatchString(L, token) ==
    ValueOf({
        IF ls.ret # 0
        THEN lxl_lexer__finish_token(
                 lxl_lexer__lex_string(
                     ls.lx, cfg.line_string_delims[ls.ret].closer, LXL_STRING_LINE),
                 [token EXCEPT !.token_type = cfg.line_string_types[ls.ret]])
        ELSE ValueOf({
                 IF ms.ret # 0
                 THEN lxl_lexer__finish_token(
                          lxl_lexer__lex_string(
                              ms.lx, cfg.multiline_string_delims[ms.ret].closer,
                              LXL_STRING_MULTILINE),
                          [token EXCEPT
                              !.token_type = cfg.multiline_string_types[ms.ret]])
                 ELSE DispatchNumber(ms.lx, token) :
                 ms \in {lxl_lexer__match_string_opener(L, LXL_STRING_MULTILINE)} }) :
        ls \in {lxl_lexer__match_string_opener(L, LXL_STRING_LINE)} })

\* A dispatch that tries the punctuation before the string openers.
dispatch_punct_before_string(L, token) ==
    ValueOf({
        IF lf.ret
        THEN lxl_lexer__finish_token(
                 lf.lx, [token EXCEPT !.token_type = cfg.line_ending_type])
        ELSE ValueOf({
                 IF pu.ret # 0
                 THEN lxl_lexer__finish_token(
                          pu.lx,
                          [token EXCEPT !.token_type = cfg.punct_types[pu.ret]])
                 ELSE DispatchString(pu.lx, token) :
                 pu \in {lxl_lexer__match_punct(lf.lx)} }) :
        lf \in {lxl_lexer__match_chars(L, <<LF>>)} })

\* The dispatch of a started token, first match first.
Dispatch(L, token) ==
    ValueOf({
        IF lf.ret
        THEN lxl_lexer__finish_token(
                 AssertCanEmitLineEnding(lf.lx),
                 [token EXCEPT !.token_type = cfg.line_ending_type])
        ELSE DispatchString(lf.lx, token) :
        lf \in {lxl_lexer__match_chars(L, <<LF>>)} })

\* A next_token that does not look whether the source has ended.
next_token_without_end_check(W) ==
    IF W.error # LXL_LERR_OK THEN lxl_lexer__create_error_token(W)
    ELSE ValueOf({ Dispatch(s.lx, s.tok) : s \in {lxl_lexer__start_token(W)} })

\* After skip_whitespace: W is the lexer it leaves.
NextTokenAfterSkip(W) ==
    IF W.error # LXL_LERR_OK THEN lxl_lexer__create_error_token(W)
    ELSE IF lxl_lexer__is_at_end(W) THEN lxl_lexer__create_end_token(W)
    ELSE ValueOf({ Dispatch(s.lx, s.tok) : s \in {lxl_lexer__start_token(W)} })

lxl_lexer_next_token(L) ==
    IF lxl_lexer_is_finished(L) THEN lxl_lexer__create_end_token(L)
    ELSE NextTokenAfterSkip(lxl_lexer__skip_whitespace(L))

lxl_lexer_reset(L) ==
    [L EXCEPT !.current = L.start, !.status = LXL_LSTS_READY]

(***************************************************************************)
(* Construction and the caller's configurations.                            *)
(***************************************************************************)
\* The configuration fields as lxl_lexer_new leaves them.
DefaultConfig ==
    [line_comment_openers |-> <<>>,
     nestable_comment_delims |-> <<>>,
     unnestable_comment_delims |-> <<>>,
     line_string_delims |-> <<>>,
     multiline_string_delims |-> <<>>,
     string_escape_chars |-> <<>>,
     line_string_types |-> <<>>,
     multiline_string_types |-> <<>>,
     number_signs |-> <<>>,
     digit_separators |-> <<>>,
     integer_prefixes |-> <<>>,
     integer_bases |-> <<>>,
     integer_suffixes |-> <<>>,
     default_int_type |-> LXL_LERR_GENERIC,
     default_int_base |-> 0,
     float_prefixes |-> <<>>,
     float_bases |-> <<>>,
     exponent_markers |-> <<>>,
     exponent_signs |-> << <<"+">>, <<"-">> >>,
     radix_separators |-> << <<".">> >>,
     float_suffixes |-> <<>>,
     default_float_type |-> LXL_LERR_GENERIC,
     default_float_base |-> 0,
     default_exponent_marker |-> <<"e">>,
     puncts |-> <<>>,
     punct_types |-> <<>>,
     keywords |-> <<>>,
     keyword_types |-> <<>>,
     default_word_type |-> LXL_TOKEN_UNINIT,
     word_lexing_rule |-> LXL_LEX_SYMBOLIC,
     line_ending_type |-> LXL_TOKEN_LINE_ENDING,
     emit_line_endings |-> FALSE,
     collect_line_endings |-> TRUE,
     before_unlex_int_hook |-> FALSE,
     before_unlex_float_hook |-> FALSE,
     after_token_hook |-> FALSE]

\* The value of the token variable before any token was returned.
NoToken ==
    [start |-> 0, end |-> 0, loc |-> [line |-> 0, column |-> 0],
     token_type |-> LXL_TOKEN_NO_TOKEN]

\* The cursor fields as lxl_lexer_new leaves them, for a source of n bytes.
\* Beside the fields of struct lxl_lexer the record notes what a call leaves
\* behind outside it: whether a library assertion failed and whether it was
\* one of the two that guard the line feed, the error code
\* that was assigned to `error` during the call, what after_token_hook saw,
\* and in `events` the calls of the before_unlex hooks and the un-lexes of
\* the call, in their order, each with the offset of the cursor.
lxl_lexer_new(n) ==
    [start |-> 0, end |-> n, current |-> 0, token_start |-> 0,
     pos |-> [line |-> 0, column |-> 0],
     previous_token_type |-> LXL_TOKEN_NO_TOKEN,
     error |-> LXL_LERR_OK,
     status |-> LXL_LSTS_READY,
     assert_failed |-> FALSE,
     lf_assert_failed |-> FALSE,
     raised |-> LXL_LERR_OK,
     hook_count |-> 0,
     events |-> <<>>,
     hook_seen |-> [token |-> NoToken,
                    previous_token_type |-> LXL_TOKEN_NO_TOKEN]]

\* Line comments and decimal integers (src/example.c, lines 86-101).
ArithConfig ==
    [DefaultConfig EXCEPT
        !.line_comment_openers = << <<"#">> >>,
        !.default_int_type = TOKEN_INT,
        !.default_int_base = 10]

\* Signed decimal integers and floats.
FloatConfig ==
    [DefaultConfig EXCEPT
        !.number_signs = << <<"+">> >>,
        !.default_int_type = TOKEN_INT,
        !.default_int_base = 10,
        !.default_float_type = TOKEN_FLOAT,
        !.default_float_base = 10,
        !.before_unlex_int_hook = TRUE,
        !.before_unlex_float_hook = TRUE]

\* Prefixed hexadecimal integers beside decimal ones, with number signs and
\* digit separators.
HexConfig ==
    [DefaultConfig EXCEPT
        !.number_signs = << <<"+">>, <<"-">> >>,
        !.digit_separators = <<"_">>,
        !.integer_prefixes = << <<"0", "x">> >>,
        !.integer_bases = <<16>>,
        !.default_int_type = TOKEN_INT,
        !.default_int_base = 10,
        !.before_unlex_int_hook = TRUE,
        !.after_token_hook = TRUE]

\* Punctuation, keywords and the WORD rule (src/example.c, lines 133-161).
WordConfig ==
    [DefaultConfig EXCEPT
        !.puncts = << <<"(">>, <<")">> >>,
        !.punct_types = <<TOKEN_LPAREN, TOKEN_RPAREN>>,
        !.keywords = << <<"d">> >>,
        !.keyword_types = <<TOKEN_DEF>>,
        !.default_word_type = TOKEN_ID,
        !.word_lexing_rule = LXL_LEX_WORD]

\* Keywords, one of them listed twice, under the symbolic rule.
KeywordConfig ==
    [DefaultConfig EXCEPT
        !.keywords = << <<"d">>, <<"d", "e">>, <<"d">> >>,
        !.keyword_types = <<TOKEN_DEF, TOKEN_MINUS, TOKEN_STAR>>,
        !.default_word_type = TOKEN_ID]

\* Line endings emitted with the given type, collected or not.
LineEndingConfig(type, collect) ==
    [DefaultConfig EXCEPT
        !.line_ending_type = type,
        !.emit_line_endings = TRUE,
        !.collect_line_endings = collect]

\* The line ending types configured: the default and one of the caller's.
LineEndingTypes == {LXL_TOKEN_LINE_ENDING, TOKEN_COMMA}

\* Line strings with an escape character (src/example.c, lines 103-111).
StringConfig ==
    [DefaultConfig EXCEPT
        !.line_string_delims = << [opener |-> <<"\"">>, closer |-> <<"\"">>] >>,
        !.line_string_types = <<TOKEN_STRING>>,
        !.string_escape_chars = <<"\\">>,
        !.after_token_hook = TRUE]

\* Integers of base b without a prefix.
BaseConfig(b) ==
    [DefaultConfig EXCEPT !.default_int_type = TOKEN_INT, !.default_int_base = b]

\* The bases the program scans integers in.
DigitBases == {2, 10, 11, 16, 26, 27, 36}

\* Multiline strings with an escape character.
MultilineConfig ==
    [DefaultConfig EXCEPT
        !.multiline_string_delims = << [opener |-> <<"'">>, closer |-> <<"'">>] >>,
        !.multiline_string_types = <<TOKEN_STRING>>,
        !.string_escape_chars = <<"\\">>]

\* Nestable block comments with two-byte delimiters, and line endings emitted.
CommentConfig ==
    [DefaultConfig EXCEPT
        !.nestable_comment_delims =
            << [opener |-> <<"/", "*">>, closer |-> <<"*", "/">>] >>,
        !.emit_line_endings = TRUE,
        !.after_token_hook = TRUE]

\* Unnestable block comments with the same delimiters.
UnnestableConfig ==
    [DefaultConfig EXCEPT
        !.unnestable_comment_delims =
            << [opener |-> <<"/", "*">>, closer |-> <<"*", "/">>] >>]

\* Line strings whose delimiter is also a punctuation mark.
QuotePunctConfig ==
    [DefaultConfig EXCEPT
        !.line_string_delims = << [opener |-> <<"\"">>, closer |-> <<"\"">>] >>,
        !.line_string_types = <<TOKEN_STRING>>,
        !.puncts = << <<"\"">>, <<"(">> >>,
        !.punct_types = <<TOKEN_PLUS, TOKEN_LPAREN>>]

\* Line strings with an opener of two bytes (the primitives are called
\* directly under this configuration; the other configurations have openers
\* of one byte, for which a byte of the opener is the whole opener).
LongOpenerConfig ==
    [DefaultConfig EXCEPT
        !.line_string_delims = << [opener |-> <<"<", "[">>, closer |-> <<"]">>] >>,
        !.line_string_types = <<TOKEN_STRING>>]

\* Punctuation marks of which one is listed after its own prefix ("==" after
\* "=") and one before it ("<=" before "<").
PunctConfig ==
    [DefaultConfig EXCEPT
        !.puncts = << <<"=">>, <<"=", "=">>, <<"<", "=">>, <<"<">> >>,
        !.punct_types = <<TOKEN_PLUS, TOKEN_MINUS, TOKEN_STAR, TOKEN_COMMA>>,
        !.word_lexing_rule = LXL_LEX_WORD]

\* Line comments beside line endings that are emitted, collected or not.
LineCommentConfig(collect) ==
    [LineEndingConfig(LXL_TOKEN_LINE_ENDING, collect) EXCEPT
        !.line_comment_openers = << <<"#">> >>]

\* Hexadecimal integers with the suffixes "d" and "u" beside decimal floats
\* and floats with the prefix "$", and both before_unlex hooks set.
RelexConfig ==
    [DefaultConfig EXCEPT
        !.integer_suffixes = << <<"d">>, <<"u">> >>,
        !.default_int_type = TOKEN_INT,
        !.default_int_base = 16,
        !.float_prefixes = << <<"$">> >>,
        !.float_bases = <<10>>,
        !.exponent_markers = << <<"e">> >>,
        !.default_float_type = TOKEN_FLOAT,
        !.default_float_base = 10,
        !.before_unlex_int_hook = TRUE,
        !.before_unlex_float_hook = TRUE]

\* A setup is a configuration, the bytes the bounded sources are made of, and
\* longer sources of interest.
Setups ==
    { [cfg |-> BaseConfig(b), alphabet |-> {"1", "a", "Z"}, sources |-> {}] :
          b \in DigitBases }
    \cup
    { [cfg |-> LineEndingConfig(type, collect), alphabet |-> {"x", " ", LF},
       sources |-> { <<"x", " ", LF, " ", LF, LF, "x">> }] :
          type \in LineEndingTypes, collect \in BOOLEAN }
    \cup
    { [cfg |-> ArithConfig, alphabet |-> {"1", "#", LF},
       sources |-> { <<"#", "h", LF, " ", "1", " ", "2">>, <<"1", ".", "2">>,
                     <<"1", "2", ".">> }],
      [cfg |-> FloatConfig, alphabet |-> {"1", ".", "e"},
       sources |-> { <<"1", "2", ".", "3", "4">>, <<"+", "1", ".", "1", " ">>,
                     <<"1", "2", ".", " ", "1">>, <<" ", "1", ".">>,
                     <<" ", ".", "1">>, <<"+", "1", ".">>, <<"+", "1">> }],
      [cfg |-> HexConfig, alphabet |-> {"0", "x", "_"},
       sources |-> { <<"0", "x", "A", "b", "_", "g">>, <<" ", "0", "x">>,
                     <<"-", "0", "x">>, <<"0", "x", "A">>,
                     <<"0", "x", "A", "b", "C", "d", "E", "f">>,
                     <<"+", "0", "x", "_", "A", " ", "_", "0">>,
                     <<"+", "1", " ", "-", "2", " ", "0", "_", "1", "2", "_", "2",
                       "_", "_">> }],
      [cfg |-> WordConfig, alphabet |-> {"d", "(", LF},
       sources |-> { <<"d", " ", "d", "e", "(", ")">> }],
      [cfg |-> KeywordConfig, alphabet |-> {"d", "e", " "},
       sources |-> { <<"d", " ", "d", "d", " ", "e", "d", " ", "d", "e">> }],
      [cfg |-> StringConfig, alphabet |-> {"\"", "\\", LF},
       sources |-> { <<"\"", "a", "\\", "\"", "b", "\"">>,
                     <<"\"", "a", "\\", "\"", "\"">>,
                     <<"\"", "\\", "\"", "\\", "\"">>,
                     <<"\"", "a", "a", "a">> }],
      [cfg |-> MultilineConfig, alphabet |-> {"'", "\\", LF},
       sources |-> { <<"'", LF, "\\", "'", "'">> }],
      [cfg |-> CommentConfig, alphabet |-> {"/", "*", LF},
       sources |-> { <<"/", "*", "/", "*", "*", "/", "*", "/", "x">>,
                     <<"/", "*", "x", LF, "*", "/", LF, "x">>,
                     <<"/", "*", "/", "*", "x">>,
                     <<"x", " ", "/", "*", "/", "*", "*", "/">>,
                     <<"/", "*", "x">> }],
      [cfg |-> QuotePunctConfig, alphabet |-> {"\"", "(", "a"},
       sources |-> { <<"\"", "a", "\"", "(", "\"", "(", "\"">> }],
      [cfg |-> PunctConfig, alphabet |-> {"=", "<"},
       sources |-> { <<"<", "=", "=", "=", "<", "a">> }],
      [cfg |-> LineCommentConfig(TRUE), alphabet |-> {"#", LF},
       sources |-> { <<"x", " ", "#", "c", LF, LF, "#", LF, "x">> }],
      [cfg |-> LineCommentConfig(FALSE), alphabet |-> {"#", LF},
       sources |-> { <<"x", " ", "#", "c", LF, LF, "#", LF, "x">> }],
      [cfg |-> RelexConfig, alphabet |-> {"d", "."},
       sources |-> { <<"d", "u">>, <<"d", "u", ".">>, <<"u", "d", " ", "d", "d", "u">>,
                     <<"$">>, <<"$", "d">>, <<"d", "$">>, <<"$", ".", "d">> }],
      [cfg |-> UnnestableConfig, alphabet |-> {"/", "*", "x"},
       sources |-> { <<"/", "*", "/", "*", "*", "/", "x">>,
                     <<"x", "/", "*", "*", "/", "/", "*">> }] }

BoundedSeqs(S, n) == UNION { [1..k -> S] : k \in 0..n }

Sources(setup) == BoundedSeqs(setup.alphabet, MaxLen) \cup setup.sources

\* The byte at `end`: NUL for a C string, any byte for a view into a buffer.
PastBytes(setup) == {NUL} \cup setup.alphabet

\* No primitive was called directly yet.
NoCall ==
    [op |-> "none", before |-> lxl_lexer_new(0), s |-> <<>>, n |-> 0, ret |-> 0,
     byte |-> NUL, reads |-> {}, seq |-> 0]

Init ==
    \E setup \in Setups :
        \E s \in Sources(setup) :
            \E p \in PastBytes(setup) :
                /\ cfg = setup.cfg
                /\ src = s
                /\ past = p
                /\ lexer = lxl_lexer_new(Len(s))
                /\ tok = NoToken
                /\ hist = <<>>
                /\ first = [complete |-> FALSE, toks |-> <<>>]
                /\ resets = 0
                /\ lastOp = "new"
                /\ call = NoCall

(***************************************************************************)
(* The public operations.                                                   *)
(***************************************************************************)
Record(h, t) == IF Len(h) < MaxToks THEN Append(h, t) ELSE h

\* A call that fails a library assertion does not return: the program ends
\* where it is, and no further call is made.
NextToken ==
    /\ ~lexer.assert_failed
    /\ \E r \in {lxl_lexer_next_token(
                      [lexer EXCEPT !.hook_count = 0, !.raised = LXL_LERR_OK,
                                    !.events = <<>>])} :
           IF r.lx.assert_failed
           THEN /\ lexer' = [lexer EXCEPT
                              !.assert_failed = TRUE,
                              !.lf_assert_failed = r.lx.lf_assert_failed]
                /\ lastOp' = "abort"
                /\ UNCHANGED <<cfg, src, past, tok, hist, first, resets, call>>
           ELSE /\ lexer' = r.lx
                /\ tok' = r.tok
                /\ hist' = Record(hist, r.tok)
                /\ lastOp' = "next"
                /\ UNCHANGED <<cfg, src, past, first, resets, call>>

Reset ==
    /\ ~lexer.assert_failed
    /\ resets < MaxResets
    /\ lexer' = lxl_lexer_reset(lexer)
    /\ first' = [complete |-> lxl_lexer_is_finished(lexer), toks |-> hist]
    /\ hist' = <<>>
    /\ resets' = resets + 1
    /\ lastOp' = "reset"
    /\ UNCHANGED <<cfg, src, past, tok, call>>

Next == NextToken \/ Reset

Spec == Init /\ [][Next]_vars

(***************************************************************************)
(* The primitives called directly.  lexel.h declares the cursor, check_ and *)
(* match_ functions beside the public ones; here each is called on a lexer  *)
(* whose cursor stands anywhere in the source, and `call` notes the call:   *)
(* the lexer before it, its argument n, what it returned, and the offsets   *)
(* whose bytes it inspected (for check_chars, advance_by and                *)
(* recalc_column).                                                          *)
(***************************************************************************)
\* Number signs and prefixed integers and floats beside decimal ones.
PrefixConfig ==
    [DefaultConfig EXCEPT
        !.number_signs = << <<"+">> >>,
        !.integer_prefixes = << <<"0", "x">> >>,
        !.integer_bases = <<16>>,
        !.float_prefixes = << <<"0", "x">> >>,
        !.float_bases = <<16>>,
        !.exponent_markers = << <<"p">> >>,
        !.default_int_type = TOKEN_INT,
        !.default_int_base = 10,
        !.default_float_type = TOKEN_FLOAT,
        !.default_float_base = 10]

PrimSetups ==
    { [cfg |-> PrefixConfig, alphabet |-> {"+", "0", "x", LF}, sources |-> {}],
      [cfg |-> LongOpenerConfig, alphabet |-> {"<", "[", "]"}, sources |-> {}],
      [cfg |-> QuotePunctConfig, alphabet |-> {"\"", "("}, sources |-> {}],
      [cfg |-> DefaultConfig, alphabet |-> {"a", LF}, sources |-> {}] }

\* The strings of the configuration: what check_string, match_string and
\* match_string_n are called with.
ConfigStrings ==
    {cfg.number_signs[i] : i \in 1..Len(cfg.number_signs)}
    \cup {cfg.integer_prefixes[i] : i \in 1..Len(cfg.integer_prefixes)}
    \cup {cfg.puncts[i] : i \in 1..Len(cfg.puncts)}
    \cup {cfg.line_string_delims[i].opener : i \in 1..Len(cfg.line_string_delims)}

\* The lexer after k calls of lxl_lexer__advance.
RECURSIVE Advanced(_, _)
Advanced(L, k) == IF k = 0 THEN L ELSE Advanced(lxl_lexer__advance(L).lx, k - 1)

PrimInit ==
    \E setup \in PrimSetups :
        \E s \in Sources(setup) :
            \E p \in PastBytes(setup) :
                \E k \in 0..Len(s) :
                    /\ cfg = setup.cfg
                    /\ src = s
                    /\ past = p
                    /\ lexer = Advanced(lxl_lexer_new(Len(s)), k)
                    /\ tok = NoToken
                    /\ hist = <<>>
                    /\ first = [complete |-> FALSE, toks |-> <<>>]
                    /\ resets = 0
                    /\ lastOp = "new"
                    /\ call = NoCall

\* A C bool as an int.
CBool(b) == IF b THEN 1 ELSE 0

\* One direct call, with the string or chars s and the count n where it
\* takes them, that leaves the lexer lx and returns ret: a bool as 0 or 1, a
\* base, or for a pointer into a list the 1-based index (0: NULL).  byte is
\* the char lxl_lexer__advance returned.
PrimCall(name, s, n, lx, ret, byte, reads) ==
    /\ call.seq < MaxCalls
    /\ lexer' = lx
    /\ call' = [op |-> name, before |-> lexer, s |-> s, n |-> n, ret |-> ret,
                byte |-> byte, reads |-> reads, seq |-> call.seq + 1]
    /\ UNCHANGED <<cfg, src, past, tok, hist, first, resets, lastOp>>

Advance ==
    \E r \in {lxl_lexer__advance(lexer)} :
        PrimCall("advance", <<>>, 1, r.lx, CBool(Truthy(r.ret)), r.ret, {})

Rewind ==
    \E r \in {lxl_lexer__rewind(lexer)} :
        PrimCall("rewind", <<>>, 1, r.lx, CBool(r.ret), NUL, {})

AdvanceBy ==
    \E n \in 0..MaxStep :
        \E r \in {lxl_lexer__advance_by(lexer, n)} :
            PrimCall("advance_by", <<>>, n, r.lx, CBool(r.ret), NUL,
                     advance_by_reads(lexer, n))

RewindBy ==
    \E n \in 0..MaxStep :
        \E r \in {lxl_lexer__rewind_by(lexer, n)} :
            PrimCall("rewind_by", <<>>, n, r.lx, CBool(r.ret), NUL, {})

RecalcColumn ==
    \E L \in {lxl_lexer__recalc_column(lexer)} :
        PrimCall("recalc_column", <<>>, 0, L, 0, NUL, recalc_column_reads(lexer))

CheckChars ==
    \E chars \in {<<>>, <<LF>>, LXL_WHITESPACE_CHARS} :
        \E ret \in {lxl_lexer__check_chars(lexer, chars)} :
            PrimCall("check_chars", chars, 0, lexer, CBool(ret), NUL,
                     check_chars_reads(lexer, chars))

CheckString ==
    \E s \in ConfigStrings :
        \E ret \in {lxl_lexer__check_string(lexer, s)} :
            PrimCall("check_string", s, 0, lexer, CBool(ret), NUL, {})

CheckStrings ==
    \E ret \in {lxl_lexer__check_number_sign(lexer)} :
        PrimCall("check_strings", <<>>, 0, lexer, CBool(ret), NUL, {})

CheckDigit ==
    \E base \in {cfg.default_int_base} :
        PrimCall("check_digit", <<>>, 0, lxl_lexer__check_digit_asserted(lexer, base),
                 CBool(lxl_lexer__check_digit(lexer, base)), NUL, {})

CheckReserved ==
    \E ret \in {lxl_lexer__check_reserved(lexer)} :
        PrimCall("check_reserved", <<>>, 0, lexer, CBool(ret), NUL, {})

CheckPunct ==
    \E ret \in {lxl_lexer__check_punct(lexer)} :
        PrimCall("check_punct", <<>>, 0, lexer, ret, NUL, {})

CheckStringOpener ==
    \E ret \in {lxl_lexer__check_string_opener(lexer, LXL_STRING_LINE)} :
        PrimCall("check_string_opener", <<>>, 0, lexer, ret, NUL, {})

CheckIntPrefix ==
    \E r \in {lxl_lexer__check_int_prefix(lexer)} :
        PrimCall("check_int_prefix", <<>>, 0, r.lx, r.ret, NUL, {})

CheckFloatPrefix ==
    \E r \in {lxl_lexer__check_float_prefix(lexer, <<>>)} :
        PrimCall("check_float_prefix", <<>>, 0, r.lx, r.ret, NUL, {})

MatchChars ==
    \E r \in {lxl_lexer__match_chars(lexer, <<LF>>)} :
        PrimCall("match_chars", <<LF>>, 0, r.lx, CBool(r.ret), NUL, {})

MatchString ==
    \E s \in ConfigStrings :
        \E r \in {lxl_lexer__match_string(lexer, s)} :
            PrimCall("match_string", s, 0, r.lx, CBool(r.ret), NUL, {})

MatchStringN ==
    \E s \in ConfigStrings :
        \E n \in 0..MaxStep :
            \E r \in {lxl_lexer__match_string_n(lexer, s, n)} :
                PrimCall("match_string_n", s, n, r.lx, CBool(r.ret), NUL, {})

MatchStrings ==
    \E r \in {lxl_lexer__match_number_sign(lexer)} :
        PrimCall("match_strings", <<>>, 0, r.lx, CBool(r.ret), NUL, {})

MatchDigit ==
    \E r \in {lxl_lexer__match_digit(lexer, cfg.default_int_base)} :
        PrimCall("match_digit", <<>>, 0, r.lx, CBool(r.ret), NUL, {})

MatchPunct ==
    \E r \in {lxl_lexer__match_punct(lexer)} :
        PrimCall("match_punct", <<>>, 0, r.lx, r.ret, NUL, {})

MatchStringOpener ==
    \E r \in {lxl_lexer__match_string_opener(lexer, LXL_STRING_LINE)} :
        PrimCall("match_string_opener", <<>>, 0, r.lx, r.ret, NUL, {})

MatchIntPrefix ==
    \E r \in {lxl_lexer__match_int_prefix(lexer)} :
        PrimCall("match_int_prefix", <<>>, 0, r.lx, r.ret, NUL, {})

MatchFloatPrefix ==
    \E r \in {lxl_lexer__match_float_prefix(lexer, <<>>)} :
        PrimCall("match_float_prefix", <<>>, 0, r.lx, r.ret, NUL, {})

PrimNext ==
    \/ Advance \/ Rewind \/ AdvanceBy \/ RewindBy \/ RecalcColumn
    \/ CheckChars \/ CheckString \/ CheckStrings \/ CheckDigit \/ CheckReserved
    \/ CheckPunct \/ CheckStringOpener \/ CheckIntPrefix \/ CheckFloatPrefix
    \/ MatchChars \/ MatchString \/ MatchStringN \/ MatchStrings \/ MatchDigit
    \/ MatchPunct \/ MatchStringOpener \/ MatchIntPrefix \/ MatchFloatPrefix

PrimSpec == PrimInit /\ [][PrimNext]_vars

(***************************************************************************)
(* Sources given as views with a length, which may hold zero bytes: the     *)
(* public operations over block comments and multiline strings.            *)
(***************************************************************************)
ViewSetups ==
    { [cfg |-> CommentConfig, alphabet |-> {"/", "*", NUL},
       sources |-> { <<"/", "*", NUL, "*", "/", "x">> }],
      [cfg |-> UnnestableConfig, alphabet |-> {"/", "*", NUL},
       sources |-> { <<"/", "*", NUL, "*", "/", "x">> }],
      [cfg |-> MultilineConfig, alphabet |-> {"'", NUL, "x"},
       sources |-> { <<"'", NUL, "'", "x">> }] }

ViewInit ==
    \E setup \in ViewSetups :
        \E s \in Sources(setup) :
            \E p \in PastBytes(setup) :
                /\ cfg = setup.cfg
                /\ src = s
                /\ past = p
                /\ lexer = lxl_lexer_new(Len(s))
                /\ tok = NoToken
                /\ hist = <<>>
                /\ first = [complete |-> FALSE, toks |-> <<>>]
                /\ resets = 0
                /\ lastOp = "new"
                /\ call = NoCall

ViewSpec == ViewInit /\ [][Next]_vars

(***************************************************************************)
(* What the properties below say about the source text itself, written      *)
(* from the grammar and not from the scanner.                               *)
(***************************************************************************)
LXL_BASIC_UPPER_LATIN_CHARS ==
    <<"A", "B", "C", "D", "E", "F", "G", "H", "I", "J", "K", "L", "M",
      "N", "O", "P", "Q", "R", "S", "T", "U", "V", "W", "X", "Y", "Z">>
LXL_BASIC_LOWER_LATIN_CHARS ==
    <<"a", "b", "c", "d", "e", "f", "g", "h", "i", "j", "k", "l", "m",
      "n", "o", "p", "q", "r", "s", "t", "u", "v", "w", "x", "y", "z">>

\* The string s stands in the source at offset p.
SrcHas(p, s) ==
    /\ p + Len(s) <= Len(src)
    /\ \A i \in 1..Len(s) : src[p + i] = s[i]

\* The bytes that are digits of `base`: the decimal digits below it, and the
\* letters, in either case, whose digit value is below it.
DigitsOfBase(base) ==
    {LXL_DIGITS[i] : i \in {j \in 1..10 : j <= base}}
        \cup {LXL_BASIC_UPPER_LATIN_CHARS[i] : i \in {j \in 1..26 : j <= base - 10}}
        \cup {LXL_BASIC_LOWER_LATIN_CHARS[i] : i \in {j \in 1..26 : j <= base - 10}}

IsDigitAt(p, base) == p < Len(src) /\ src[p + 1] \in DigitsOfBase(base)

IsSeparatorAt(p) == p < Len(src) /\ InChars(src[p + 1], cfg.digit_separators)

IsWhitespaceAt(p) == p < Len(src) /\ InChars(src[p + 1], LXL_WHITESPACE_CHARS)

\* The length of the run of digits of `base` that starts at offset p.
RECURSIVE DigitsFrom(_, _)
DigitsFrom(p, base) ==
    IF IsDigitAt(p, base) THEN 1 + DigitsFrom(p + 1, base) ELSE 0

\* The run of digits and digit separators that starts at p holds a digit.
RECURSIVE RunHasDigit(_, _)
RunHasDigit(p, base) ==
    IF IsDigitAt(p, base) THEN TRUE
    ELSE IF IsSeparatorAt(p) THEN RunHasDigit(p + 1, base)
    ELSE FALSE

\* The first of `strings` that stands at p (0: none does).
FirstAt(p, strings) ==
    LET hits == {i \in 1..Len(strings) : SrcHas(p, strings[i])}
    IN  IF hits = {} THEN 0 ELSE CHOOSE i \in hits : \A j \in hits : i <= j

\* An integer prefix stands at p and no digit of its base follows it.
PrefixWithoutDigitsAt(p) ==
    LET i == FirstAt(p, cfg.integer_prefixes)
    IN  /\ i # 0
        /\ ~RunHasDigit(p + Len(cfg.integer_prefixes[i]), cfg.integer_bases[i])

\* The length of the literal "digits radix-separator digits" that stands at p
\* and ends there (no digit, digit separator or exponent marker goes on), or 0.
FloatLiteralAt(p) ==
    LET n1 == DigitsFrom(p, 10)
        r == FirstAt(p + n1, cfg.radix_separators)
        rl == IF r = 0 THEN 0 ELSE Len(cfg.radix_separators[r])
        n2 == DigitsFrom(p + n1 + rl, 10)
        e == p + n1 + rl + n2
    IN  IF /\ n1 > 0 /\ r # 0 /\ n2 > 0
           /\ ~IsSeparatorAt(e)
           /\ ~SrcHas(e, cfg.default_exponent_marker)
        THEN n1 + rl + n2 ELSE 0

\* The length of the literal "digits radix-separator" that stands at p and is
\* followed by the end of the source or by whitespace, or 0.
EmptyFractionAt(p) ==
    LET n1 == DigitsFrom(p, 10)
        r == FirstAt(p + n1, cfg.radix_separators)
        rl == IF r = 0 THEN 0 ELSE Len(cfg.radix_separators[r])
        e == p + n1 + rl
    IN  IF n1 > 0 /\ r # 0 /\ (e = Len(src) \/ IsWhitespaceAt(e))
        THEN n1 + rl ELSE 0

\* The number of line feeds before offset p, and the bytes between the last of
\* them (or the start of the source) and p.
LineOf(p) == Cardinality({k \in 1..p : src[k] = LF})

ColumnOf(p) ==
    LET lfs == {k \in 1..p : src[k] = LF}
    IN  IF lfs = {} THEN p ELSE p - (CHOOSE k \in lfs : \A j \in lfs : j <= k)

\* The offset after the nestable comment of depth `depth` at q closes: each
\* opener inside it opens a comment that needs its own closer.  An unclosed
\* comment runs to the end of the source.
RECURSIVE NestEnd(_, _, _)
NestEnd(q, depth, d) ==
    IF depth = 0 THEN q
    ELSE IF q >= Len(src) THEN Len(src)
    ELSE IF SrcHas(q, d.closer) THEN NestEnd(q + Len(d.closer), depth - 1, d)
    ELSE IF SrcHas(q, d.opener) THEN NestEnd(q + Len(d.opener), depth + 1, d)
    ELSE NestEnd(q + 1, depth, d)

\* A comment opener stands at p and the comment it opens reaches offset k:
\* a line comment runs up to the next line feed, an unnestable block comment
\* through its first closer, a nestable one through the closer that matches
\* its opener.
CommentCovers(p, k) ==
    \/ /\ FirstAt(p, cfg.line_comment_openers) # 0
       /\ \A q \in p..k : src[q + 1] # LF
    \/ \E i \in 1..Len(cfg.unnestable_comment_delims) :
           LET d == cfg.unnestable_comment_delims[i]
           IN  /\ SrcHas(p, d.opener)
               /\ \A q \in (p + Len(d.opener))..(k - Len(d.closer)) :
                      ~SrcHas(q, d.closer)
    \/ \E i \in 1..Len(cfg.nestable_comment_delims) :
           LET d == cfg.nestable_comment_delims[i]
           IN  /\ SrcHas(p, d.opener)
               /\ k < NestEnd(p + Len(d.opener), 1, d)

\* Every byte of [a, b) is whitespace or lies in a comment opened in [a, b).
OnlySkippable(a, b) ==
    \A k \in a..(b - 1) :
        IsWhitespaceAt(k) \/ \E p \in a..k : CommentCovers(p, k)

\* Where the i-th token of the pass was looked for: the previous token's end.
GapStart(h, i) == IF i = 1 THEN 0 ELSE h[i - 1].end

\* The index of the first END token of h (0: none), and h up to it.
FirstEnd(h) ==
    LET ends == {i \in 1..Len(h) : LXL_TOKEN_IS_END(h[i])}
    IN  IF ends = {} THEN 0 ELSE CHOOSE i \in ends : \A j \in ends : i <= j

BeforeEnd(h) == SubSeq(h, 1, FirstEnd(h) - 1)

\* The source is a C string: the byte at `end` is the terminating NUL.
NulTerminated == past = NUL

Returned == lastOp = "next"

(***************************************************************************)
(* Properties.                                                              *)
(***************************************************************************)

\* C1: repeated lxl_lexer_next_token calls on a fresh lexer reach an END
\* token after finitely many calls, also after an error token.  The scanner
\* is a function of the lexer, the source and the configuration, so a call
\* that returns without finishing must leave the lexer in a state other than
\* the one it found: from an unchanged state every later call repeats it and
\* END is never reached.  Stated for NUL-terminated sources.
C1_EveryCallProgresses ==
    [][(NulTerminated /\ lastOp' = "next" /\ ~lxl_lexer_is_finished(lexer'))
           => lexer' # lexer]_vars

\* C2: once an END token was returned, the next call (no reset in between)
\* returns an END token again, empty, at the same position, and leaves
\* current and the status FINISHED as they were.
C2_EndRepeats ==
    [][(Returned /\ LXL_TOKEN_IS_END(tok) /\ lastOp' = "next")
           => /\ LXL_TOKEN_IS_END(tok')
              /\ tok'.start = tok'.end
              /\ tok'.start = tok.start
              /\ tok'.loc = tok.loc
              /\ lexer'.current = lexer.current
              /\ lexer.status = LXL_LSTS_FINISHED
              /\ lexer'.status = LXL_LSTS_FINISHED]_vars

C2_Witness ==
    /\ Returned
    /\ Len(hist) >= 2
    /\ LXL_TOKEN_IS_END(hist[Len(hist) - 1])
    /\ LXL_TOKEN_IS_END(hist[Len(hist)])
    /\ tok = hist[Len(hist)]

\* C3: a call that returns a token that is neither an END token nor an error
\* token has moved current forward by at least one byte, and the token is
\* not empty.  Stated for NUL-terminated sources.
C3_TokenAdvances ==
    [][(/\ NulTerminated
        /\ lastOp' = "next"
        /\ ~LXL_TOKEN_IS_END(tok')
        /\ ~LXL_TOKEN_IS_ERROR(tok'))
           => /\ lexer'.current > lexer.current
              /\ tok'.end > tok'.start]_vars

\* C4: every returned token lies in the source, start <= t.start <= t.end
\* <= end, and ends where the cursor stands when the call returns.
C4_TokenWithinSource ==
    Returned =>
        /\ lexer.start <= tok.start
        /\ tok.start <= tok.end
        /\ tok.end <= lexer.end
        /\ tok.end = lexer.current

\* A token was started after skipped bytes and an un-lex took the cursor
\* back to its start.
C4_Witness ==
    /\ Returned
    /\ Len(hist) >= 1
    /\ hist[1].start > 0
    /\ hist[1].end = hist[1].start
    /\ LXL_TOKEN_IS_ERROR(hist[1])

\* C5: in a complete first pass, from a fresh lexer to END, each token starts
\* at or after the end of the one before it, the bytes between them are only
\* whitespace and comment bytes, and END stands at the end of the source: the
\* spans and the skipped bytes cover the source once, in order.
C5_SpansCoverSource ==
    (resets = 0 /\ FirstEnd(hist) # 0) =>
        \A i \in 1..FirstEnd(hist) :
            /\ GapStart(hist, i) <= hist[i].start
            /\ hist[i].start <= hist[i].end
            /\ OnlySkippable(GapStart(hist, i), hist[i].start)
            /\ (LXL_TOKEN_IS_END(hist[i]) => hist[i].start = Len(src))

\* A complete pass whose first token is not empty and stands after a comment.
C5_Witness ==
    /\ resets = 0
    /\ FirstEnd(hist) >= 2
    /\ hist[1].end > hist[1].start
    /\ \E k \in 0..(hist[1].start - 1) : ~IsWhitespaceAt(k)

\* C6: a returned token's loc.line is the number of line feeds before its
\* start and its loc.column the number of bytes since the last of them (or
\* since the start of the source).  Stated for the first pass over a
\* NUL-terminated source.
C6_LocIsLineAndColumn ==
    (NulTerminated /\ Returned /\ resets = 0) =>
        tok.loc = [line |-> LineOf(tok.start), column |-> ColumnOf(tok.start)]

\* C7: lexing to END, resetting and lexing to END again returns the tokens of
\* the first pass: same types, same spans, same locations.  Stated for the
\* tokens before END of a NUL-terminated source.
C7_ResetRepeatsTokens ==
    (/\ NulTerminated
     /\ resets = 1
     /\ first.complete
     /\ FirstEnd(first.toks) # 0
     /\ FirstEnd(hist) # 0)
        => BeforeEnd(hist) = BeforeEnd(first.toks)

\* C8: when an integer prefix stands at the token's start and no digit of its
\* base follows, the token returned is an INVALID_INTEGER token.
C8_PrefixWithoutDigits ==
    (Returned /\ ~LXL_TOKEN_IS_END(tok) /\ PrefixWithoutDigitsAt(tok.start))
        => tok.token_type = LXL_LERR_INVALID_INTEGER

\* The prefix is followed by a digit separator and then by a byte that is
\* no digit of base 16.
C8_Witness ==
    /\ Returned
    /\ PrefixWithoutDigitsAt(tok.start)
    /\ IsSeparatorAt(tok.start + 2)
    /\ tok.token_type = LXL_LERR_INVALID_INTEGER

\* C9: with default_int_base = default_float_base = 10, a literal of digits,
\* a radix separator and digits, at which the number ends, is returned as
\* one token of default_float_type that spans the whole literal.
C9_FloatLiteral ==
    (/\ Returned
     /\ ~LXL_TOKEN_IS_END(tok)
     /\ cfg.default_int_base = 10
     /\ cfg.default_float_base = 10
     /\ FloatLiteralAt(tok.start) > 0)
        => /\ tok.token_type = cfg.default_float_type
           /\ tok.end = tok.start + FloatLiteralAt(tok.start)

C9_Witness ==
    /\ Returned
    /\ cfg.default_int_base = 10
    /\ cfg.default_float_base = 10
    /\ FloatLiteralAt(tok.start) = 5
    /\ tok.token_type = cfg.default_float_type
    /\ tok.end = tok.start + 5

\* C10: with default_float_base = 10, digits followed by a radix separator
\* and no fractional digit are returned as one token of default_float_type
\* that spans the digits and the separator.  Stated for NUL-terminated
\* sources.
C10_EmptyFraction ==
    (/\ NulTerminated
     /\ Returned
     /\ ~LXL_TOKEN_IS_END(tok)
     /\ cfg.default_float_base = 10
     /\ EmptyFractionAt(tok.start) > 0)
        => /\ tok.token_type = cfg.default_float_type
           /\ tok.end = tok.start + EmptyFractionAt(tok.start)

\* The openers of a list of delimiter pairs.
Openers(delims) == [i \in 1..Len(delims) |-> delims[i].opener]

\* The string opened at offset p: its delimiter pair, kind and token type
\* (line strings are tried before multiline strings); empty when no string
\* opener stands at p.
StringAt(p) ==
    IF FirstAt(p, Openers(cfg.line_string_delims)) # 0
    THEN {[d |-> cfg.line_string_delims[i], kind |-> LXL_STRING_LINE,
           type |-> cfg.line_string_types[i]] :
              i \in {FirstAt(p, Openers(cfg.line_string_delims))}}
    ELSE IF FirstAt(p, Openers(cfg.multiline_string_delims)) # 0
    THEN {[d |-> cfg.multiline_string_delims[i], kind |-> LXL_STRING_MULTILINE,
           type |-> cfg.multiline_string_types[i]] :
              i \in {FirstAt(p, Openers(cfg.multiline_string_delims))}}
    ELSE {}

\* The offset just after the first closer at or after q that is not escaped
\* (-1: there is none before the end of the source).  A byte of
\* string_escape_chars escapes the byte after it, so a closer that directly
\* follows an escaping byte does not count.
RECURSIVE StringClose(_, _)
StringClose(q, closer) ==
    IF q >= Len(src) THEN -1
    ELSE IF SrcHas(q, closer) THEN q + Len(closer)
    ELSE IF InChars(src[q + 1], cfg.string_escape_chars)
    THEN IF SrcHas(q + 1, closer)
         THEN StringClose(q + 1 + Len(closer), closer)
         ELSE StringClose(q + 2, closer)
    ELSE StringClose(q + 1, closer)

\* No line feed in [a, b).
NoLineFeed(a, b) == \A k \in a..(b - 1) : src[k + 1] # LF

\* The string opened at p is cut short by a line feed before offset b.
CutByLineFeed(s, p, b) == s.kind = LXL_STRING_LINE /\ ~NoLineFeed(p, b)

\* C11: when the source ends inside a line or multiline string (the opener
\* is matched and no unescaped closer follows before the end of the source)
\* the call returns one UNCLOSED_STRING token from the opener to the end of
\* the source, and the call after it returns END.  Stated for NUL-terminated
\* sources.
C11_UnclosedString ==
    NulTerminated =>
        \A i \in 1..Len(hist) :
            \A s \in StringAt(hist[i].start) :
                (/\ StringClose(hist[i].start + Len(s.d.opener), s.d.closer) = -1
                 /\ ~CutByLineFeed(s, hist[i].start, Len(src)))
                    => /\ hist[i].token_type = LXL_LERR_UNCLOSED_STRING
                       /\ hist[i].end = Len(src)
                       /\ i < Len(hist) => hist[i + 1].token_type = LXL_TOKENS_END

\* C13: a closer that directly follows a byte of string_escape_chars does
\* not end the string, and the string token ends exactly at the first closer
\* that is not escaped, wherever the escapes stand -- also when an escaped
\* closer is directly followed by the real closer.  Stated for NUL-terminated
\* sources.
C13_EscapedCloser ==
    (NulTerminated /\ Returned) =>
        \A s \in StringAt(tok.start) :
            \A e \in {StringClose(tok.start + Len(s.d.opener), s.d.closer)} :
                (e >= 0 /\ ~CutByLineFeed(s, tok.start, e))
                    => /\ tok.token_type = s.type
                       /\ tok.end = e

\* The nestable comment of depth `depth` at q is closed before the source
\* ends: each opener inside it opens a comment that needs its own closer.
RECURSIVE NestClosed(_, _, _)
NestClosed(q, depth, d) ==
    IF depth = 0 THEN TRUE
    ELSE IF q >= Len(src) THEN FALSE
    ELSE IF SrcHas(q, d.closer) THEN NestClosed(q + Len(d.closer), depth - 1, d)
    ELSE IF SrcHas(q, d.opener) THEN NestClosed(q + Len(d.opener), depth + 1, d)
    ELSE NestClosed(q + 1, depth, d)

\* A block comment opener stands at p and the source ends inside the comment
\* it opens (nestable pairs are tried before unnestable ones).
UnclosedBlockAt(p) ==
    /\ FirstAt(p, cfg.line_comment_openers) = 0
    /\ IF FirstAt(p, Openers(cfg.nestable_comment_delims)) # 0
       THEN \A i \in {FirstAt(p, Openers(cfg.nestable_comment_delims))} :
                ~NestClosed(p + Len(cfg.nestable_comment_delims[i].opener), 1,
                            cfg.nestable_comment_delims[i])
       ELSE /\ FirstAt(p, Openers(cfg.unnestable_comment_delims)) # 0
            /\ \A i \in {FirstAt(p, Openers(cfg.unnestable_comment_delims))} :
                   \A q \in (p + Len(cfg.unnestable_comment_delims[i].opener))
                                ..(Len(src) - 1) :
                       ~SrcHas(q, cfg.unnestable_comment_delims[i].closer)

\* A line feed is skipped as whitespace when line endings are not emitted, or
\* are collected and the token before was a line ending.
LineFeedSkipped(previous) ==
    \/ ~cfg.emit_line_endings
    \/ cfg.collect_line_endings /\ previous = cfg.line_ending_type

\* The offset after the comment that opens at p and is closed before the
\* source ends (a line comment ends before its line feed, or where the source
\* ends); p itself when no such comment opens at p.
ClosedCommentEnd(p) ==
    IF FirstAt(p, cfg.line_comment_openers) # 0
    THEN CHOOSE e \in p..Len(src) :
             /\ NoLineFeed(p, e)
             /\ e < Len(src) => src[e + 1] = LF
    ELSE IF UnclosedBlockAt(p) THEN p
    ELSE IF FirstAt(p, Openers(cfg.nestable_comment_delims)) # 0
    THEN ValueOf({NestEnd(p + Len(cfg.nestable_comment_delims[i].opener), 1,
                          cfg.nestable_comment_delims[i]) :
                      i \in {FirstAt(p, Openers(cfg.nestable_comment_delims))}})
    ELSE IF FirstAt(p, Openers(cfg.unnestable_comment_delims)) # 0
    THEN ValueOf({Len(cfg.unnestable_comment_delims[i].closer)
                      + (CHOOSE q \in (p + Len(cfg.unnestable_comment_delims[i].opener))
                                          ..Len(src) :
                             /\ SrcHas(q, cfg.unnestable_comment_delims[i].closer)
                             /\ \A r \in (p + Len(cfg.unnestable_comment_delims[i].opener))
                                              ..(q - 1) :
                                    ~SrcHas(r, cfg.unnestable_comment_delims[i].closer)) :
                      i \in {FirstAt(p, Openers(cfg.unnestable_comment_delims))}})
    ELSE p

\* Where skipping whitespace and closed comments from offset g, after a token
\* of type `previous`, comes to a stop.
RECURSIVE ArriveAt(_, _)
ArriveAt(g, previous) ==
    IF g >= Len(src) THEN g
    ELSE IF IsWhitespaceAt(g) /\ (src[g + 1] = LF => LineFeedSkipped(previous))
    THEN ArriveAt(g + 1, previous)
    ELSE IF ClosedCommentEnd(g) > g THEN ArriveAt(ClosedCommentEnd(g), previous)
    ELSE g

\* Scanning on from offset g, after a token of type `previous`, only
\* whitespace and closed comments come before a block comment in which the
\* source ends.
EndsInComment(g, previous) == UnclosedBlockAt(ArriveAt(g, previous))

\* C12: when the source ends inside a block comment, nestable or not and at
\* any nesting depth, the call that meets the comment returns an error token
\* of type UNCLOSED_COMMENT whose end is the end of the source, and the call
\* after it returns END and leaves the status FINISHED.
C12_UnclosedComment ==
    [][lastOp' = "next" =>
           /\ (~lxl_lexer_is_finished(lexer)
                   /\ EndsInComment(lexer.current, lexer.previous_token_type))
                  => /\ tok'.token_type = LXL_LERR_UNCLOSED_COMMENT
                     /\ tok'.end = Len(src)
           /\ (lastOp = "next" /\ tok.token_type = LXL_LERR_UNCLOSED_COMMENT)
                  => /\ tok'.token_type = LXL_TOKENS_END
                     /\ lexer'.status = LXL_LSTS_FINISHED]_vars

\* C12 witness: the source ended inside a nested comment (an opener inside an
\* open nestable comment): UNCLOSED_COMMENT was returned and then END.
C12_Witness ==
    /\ Len(hist) >= 2
    /\ hist[Len(hist) - 1].token_type = LXL_LERR_UNCLOSED_COMMENT
    /\ hist[Len(hist)].token_type = LXL_TOKENS_END
    /\ lexer.status = LXL_LSTS_FINISHED
    /\ \E p \in 0..(Len(src) - 1) : \E i \in 1..Len(cfg.nestable_comment_delims) :
           \E q \in (p + 2)..(Len(src) - 1) :
               /\ SrcHas(p, cfg.nestable_comment_delims[i].opener)
               /\ SrcHas(q, cfg.nestable_comment_delims[i].opener)
               /\ UnclosedBlockAt(p)
               /\ UnclosedBlockAt(q)

\* A nestable comment opens at p and is closed before the source ends.
ClosedNestableAt(p) ==
    /\ FirstAt(p, cfg.line_comment_openers) = 0
    /\ FirstAt(p, Openers(cfg.nestable_comment_delims)) # 0
    /\ ~UnclosedBlockAt(p)

\* C14: a nestable block comment whose inner openers are all balanced by
\* closers is skipped in full, at any nesting depth: it gives no token and no
\* error, and the next token starts at the first byte after the outermost
\* closer (after the whitespace and comments that follow it, if any).
C14_NestedCommentSkipped ==
    [][(/\ lastOp' = "next"
        /\ ~lxl_lexer_is_finished(lexer)
        /\ ClosedNestableAt(lexer.current))
           => \A e \in {ClosedCommentEnd(lexer.current)} :
                  ~EndsInComment(e, lexer.previous_token_type)
                      => /\ tok'.start = ArriveAt(e, lexer.previous_token_type)
                         /\ ~LXL_TOKEN_IS_ERROR(tok')]_vars

\* C14 witness: a comment with a comment nested in it stood at the start of
\* the source and the first token returned is the word right after the outer
\* closer.
C14_Witness ==
    /\ Len(hist) = 1
    /\ ClosedNestableAt(0)
    /\ \E i \in 1..Len(cfg.nestable_comment_delims) :
           /\ SrcHas(0, cfg.nestable_comment_delims[i].opener)
           /\ SrcHas(2, cfg.nestable_comment_delims[i].opener)
    /\ tok.start = ClosedCommentEnd(0)
    /\ tok.start > 6
    /\ tok.end > tok.start
    /\ tok.token_type = cfg.default_word_type

\* C15: for every base b in 2..36, lxl_lexer__check_digit(b) completes
\* without an assertion failure and returns true exactly when the current
\* byte is a decimal digit below b or a letter, of either case, whose digit
\* value is below b.  The scanner calls it with the bases of the
\* configuration, so with bases in 2..36 no call of lxl_lexer_next_token
\* ends in a failed assertion, and where the cursor stands on a byte of the
\* source the value returned is the one described.
C15_CheckDigit ==
    (\A b \in {cfg.default_int_base, cfg.default_float_base} : b = 0 \/ b \in 2..36)
        => /\ ~lexer.assert_failed
           /\ \A b \in 2..36 :
                  lexer.current < Len(src)
                      => (lxl_lexer__check_digit(lexer, b)
                              <=> IsDigitAt(lexer.current, b))

\* The offset where the run of digits of `base` and digit separators that
\* starts at p ends.
RECURSIVE RunEnd(_, _)
RunEnd(p, base) ==
    IF IsDigitAt(p, base) \/ IsSeparatorAt(p) THEN RunEnd(p + 1, base) ELSE p

\* The offset after the number sign at p, if one stands there.
AfterSign(p) ==
    IF FirstAt(p, cfg.number_signs) = 0 THEN p
    ELSE p + Len(cfg.number_signs[FirstAt(p, cfg.number_signs)])

\* [p, e) is an optional number sign, an optional integer prefix and a run of
\* digits and digit separators that holds a digit; without a prefix the
\* digits are those of default_int_base and the run starts with one.
IntegerSpan(p, e) ==
    \A s \in {AfterSign(p)} :
        IF FirstAt(s, cfg.integer_prefixes) # 0
        THEN \A i \in {FirstAt(s, cfg.integer_prefixes)} :
                 /\ RunHasDigit(s + Len(cfg.integer_prefixes[i]), cfg.integer_bases[i])
                 /\ e = RunEnd(s + Len(cfg.integer_prefixes[i]), cfg.integer_bases[i])
        ELSE /\ IsDigitAt(s, cfg.default_int_base)
             /\ e = RunEnd(s, cfg.default_int_base)

\* The offset after the integer suffix that stands at e (e itself: none).
AfterIntSuffix(e) ==
    IF FirstAt(e, cfg.integer_suffixes) = 0 THEN e
    ELSE e + Len(cfg.integer_suffixes[FirstAt(e, cfg.integer_suffixes)])

Span(a, b) == SubSeq(src, a + 1, b)

\* The token t is a word: not an END or error token, and at its start stands
\* no line feed, string opener, number or punctuation mark.
IsWord(t) ==
    /\ ~LXL_TOKEN_IS_END(t)
    /\ ~LXL_TOKEN_IS_ERROR(t)
    /\ t.start < Len(src)
    /\ src[t.start + 1] # LF
    /\ StringAt(t.start) = {}
    /\ cfg.default_int_base = 0
    /\ cfg.default_float_base = 0
    /\ FirstAt(AfterSign(t.start), cfg.integer_prefixes) = 0
    /\ FirstAt(AfterSign(t.start), cfg.float_prefixes) = 0
    /\ FirstAt(t.start, cfg.puncts) = 0

\* The keywords the span of t is equal to, byte for byte.
KeywordsOf(t) == {i \in 1..Len(cfg.keywords) : cfg.keywords[i] = Span(t.start, t.end)}

\* C17: a word token gets keyword_types[i] exactly when its span has the
\* length and the bytes of keywords[i], for the first such i, and
\* default_word_type otherwise: a word that only starts with or contains a
\* keyword is no keyword.
C17_KeywordType ==
    (Returned /\ IsWord(tok)) =>
        IF KeywordsOf(tok) = {}
        THEN tok.token_type = cfg.default_word_type
        ELSE \E i \in KeywordsOf(tok) :
                 /\ \A j \in KeywordsOf(tok) : i <= j
                 /\ tok.token_type = cfg.keyword_types[i]

\* C17 witness: a word equal to a keyword that is listed twice got the type
\* of the first listing, and the words after it, one that starts with the
\* keyword and one that ends with it, got default_word_type.
C17_Witness ==
    /\ Len(hist) = 3
    /\ tok = hist[3]
    /\ \A i \in 1..3 : IsWord(hist[i])
    /\ Cardinality(KeywordsOf(hist[1])) = 2
    /\ hist[1].token_type = TOKEN_DEF
    /\ \E i \in KeywordsOf(hist[1]) :
           /\ Span(hist[2].start, hist[2].start + 1) = cfg.keywords[i]
           /\ Span(hist[3].end - 1, hist[3].end) = cfg.keywords[i]
    /\ hist[2].end = hist[2].start + 2
    /\ hist[3].end = hist[3].start + 2
    /\ hist[2].token_type = cfg.default_word_type
    /\ hist[3].token_type = cfg.default_word_type
    /\ cfg.default_word_type # TOKEN_DEF

\* The token t is a line-ending token: one line feed, of line_ending_type.
IsLineEnding(t) ==
    /\ t.start < Len(src)
    /\ src[t.start + 1] = LF
    /\ t.end = t.start + 1
    /\ t.token_type = cfg.line_ending_type

\* Skipping whitespace and closed comments from offset g meets a line feed
\* before offset `stop`.
RECURSIVE SkippedLineFeed(_, _)
SkippedLineFeed(g, stop) ==
    IF g >= stop THEN FALSE
    ELSE IF src[g + 1] = LF THEN TRUE
    ELSE IF IsWhitespaceAt(g) THEN SkippedLineFeed(g + 1, stop)
    ELSE IF ClosedCommentEnd(g) > g THEN SkippedLineFeed(ClosedCommentEnd(g), stop)
    ELSE FALSE

\* C18: with emit_line_endings true, every line feed outside comments and
\* strings is either returned as a token of line_ending_type or, when
\* collect_line_endings is true, skipped because the token before it was a
\* line ending.  So with collect_line_endings true a run of line feeds
\* (separated only by other whitespace or comments) gives exactly one
\* line-ending token, whatever line_ending_type is configured, and with
\* collect_line_endings false each line feed gives its own token.  Stated
\* for NUL-terminated sources and the first pass over the source.
C18_LineEndings ==
    (NulTerminated /\ resets = 0 /\ cfg.emit_line_endings) =>
        \A i \in 1..Len(hist) :
            /\ (hist[i].start < Len(src) /\ src[hist[i].start + 1] = LF)
                   => IsLineEnding(hist[i])
            /\ StringAt(hist[i].start) = {}
                   => \A k \in (hist[i].start + 1)..(hist[i].end - 1) : src[k + 1] # LF
            /\ SkippedLineFeed(GapStart(hist, i), hist[i].start)
                   => (cfg.collect_line_endings /\ i > 1 /\ IsLineEnding(hist[i - 1]))
            /\ (cfg.collect_line_endings /\ i > 1 /\ IsLineEnding(hist[i - 1]))
                   => ~IsLineEnding(hist[i])

\* C19: after_token_hook, when set, is called exactly once in every call of
\* lxl_lexer_next_token, with the token as it is returned: its end and type
\* are final and previous_token_type is already that type.  This includes
\* the calls that return END tokens and error tokens.
C19_HookOncePerToken ==
    (Returned /\ cfg.after_token_hook)
        => /\ lexer.hook_count = 1
           /\ lexer.hook_seen.token = tok
           /\ lexer.hook_seen.previous_token_type = tok.token_type

\* C19 witness: the hook was called once in a call that returned a non-empty
\* token, once in a call that returned an error token, and once in the call
\* that returned END.
C19_Witness ==
    /\ Returned
    /\ cfg.after_token_hook
    /\ Len(hist) = 3
    /\ hist[1].end > hist[1].start
    /\ ~LXL_TOKEN_IS_ERROR(hist[1])
    /\ LXL_TOKEN_IS_ERROR(hist[2])
    /\ tok = hist[3]
    /\ LXL_TOKEN_IS_END(tok)
    /\ lexer.hook_count = 1
    /\ lexer.hook_seen.token = tok

\* C20: whenever lxl_lexer_next_token returns, lexer.error is OK and the
\* status is READY or FINISHED, never LEXING; the status is FINISHED exactly
\* when an END token was returned since construction or the last reset; and
\* when an error was raised during the call the token returned has that
\* error code for its type.
C20_ErrorAndStatus ==
    Returned =>
        /\ lexer.error = LXL_LERR_OK
        /\ lexer.status \in {LXL_LSTS_READY, LXL_LSTS_FINISHED}
        /\ lexer.status = LXL_LSTS_FINISHED
               <=> \/ FirstEnd(hist) # 0
                   \/ Len(hist) = MaxToks /\ LXL_TOKEN_IS_END(tok)
        /\ lexer.raised # LXL_LERR_OK => tok.token_type = lexer.raised

\* C20 witness: after a token was returned an error was raised in the next
\* call; the token returned has the error code as its type, the error is OK
\* again, and the status is READY as no END token was returned yet.
C20_Witness ==
    /\ Returned
    /\ Len(hist) = 2
    /\ tok = hist[2]
    /\ ~LXL_TOKEN_IS_ERROR(hist[1])
    /\ lexer.raised \in {LXL_LERR_UNCLOSED_COMMENT, LXL_LERR_UNCLOSED_STRING}
    /\ tok.token_type = lexer.raised
    /\ lexer.error = LXL_LERR_OK
    /\ lexer.status = LXL_LSTS_READY
    /\ FirstEnd(hist) = 0

(***************************************************************************)
(* The empty source.                                                        *)
(***************************************************************************)
\* C23: for an empty source, the first call of lxl_lexer_next_token returns
\* an END token with an empty span at location (0, 0), and leaves the lexer
\* FINISHED.
C23_EmptySource ==
    (src = <<>> /\ Returned /\ Len(hist) = 1) =>
        /\ tok = [start |-> 0, end |-> 0, loc |-> [line |-> 0, column |-> 0],
                  token_type |-> LXL_TOKENS_END]
        /\ hist[1] = tok
        /\ lexer.status = LXL_LSTS_FINISHED

\* C23 witness: the first call on an empty source has returned, with a byte
\* other than NUL behind the end of the source.
C23_Witness ==
    /\ src = <<>>
    /\ past # NUL
    /\ resets = 0
    /\ Returned
    /\ Len(hist) = 1
    /\ LXL_TOKEN_IS_END(tok)
    /\ lexer.status = LXL_LSTS_FINISHED

(***************************************************************************)
(* The pointers of the lexer.                                               *)
(***************************************************************************)
\* C25: in every state reached through lxl_lexer_new, lxl_lexer_next_token
\* and lxl_lexer_reset, start <= token_start <= current <= end, the state
\* right after lxl_lexer_reset included.
C25_PointerOrder ==
    /\ lexer.start <= lexer.token_start
    /\ lexer.token_start <= lexer.current
    /\ lexer.current <= lexer.end

(***************************************************************************)
(* Symbolic words.                                                          *)
(***************************************************************************)
\* C29: with word_lexing_rule = SYMBOLIC a word token contains no whitespace
\* byte, the line feed included, whatever emit_line_endings and
\* collect_line_endings are set to; and with emit_line_endings true the
\* token after a word that is followed by a line feed is a line-ending
\* token.  Stated for NUL-terminated sources and the first pass.
C29_SymbolicWord ==
    (NulTerminated /\ resets = 0 /\ cfg.word_lexing_rule = LXL_LEX_SYMBOLIC) =>
        \A i \in 1..Len(hist) :
            IsWord(hist[i]) =>
                /\ \A k \in hist[i].start..(hist[i].end - 1) : ~IsWhitespaceAt(k)
                /\ ( /\ cfg.emit_line_endings
                     /\ hist[i].end < Len(src)
                     /\ src[hist[i].end + 1] = LF
                     /\ i < Len(hist) )
                       => IsLineEnding(hist[i + 1])

(***************************************************************************)
(* String openers.                                                          *)
(***************************************************************************)
\* C22: when the bytes at the start of a token are a configured string
\* opener and also a configured punctuation string, lxl_lexer_next_token
\* lexes a string there: the token has the type of the parallel string-type
\* list and ends with the closer, or is the UNCLOSED_STRING error token;
\* it is never the punctuation token.
C22_StringBeforePunct ==
    \A i \in 1..Len(hist) :
        \A s \in StringAt(hist[i].start) :
            FirstAt(hist[i].start, cfg.puncts) # 0 =>
                /\ hist[i].token_type \in {s.type, LXL_LERR_UNCLOSED_STRING}
                /\ hist[i].token_type # cfg.punct_types[FirstAt(hist[i].start, cfg.puncts)]
                /\ hist[i].token_type = s.type =>
                       /\ hist[i].end >= hist[i].start + Len(s.d.opener) + Len(s.d.closer)
                       /\ SrcHas(hist[i].end - Len(s.d.closer), s.d.closer)

\* C22 witness: a closed string whose opener is a punctuation mark was
\* returned after another punctuation token.
C22_Witness ==
    /\ Returned
    /\ Len(hist) = 3
    /\ tok = hist[3]
    /\ FirstAt(hist[2].start, cfg.puncts) # 0
    /\ hist[2].token_type = TOKEN_LPAREN
    /\ StringAt(tok.start) # {}
    /\ FirstAt(tok.start, cfg.puncts) # 0
    /\ tok.token_type = TOKEN_STRING
    /\ tok.end = tok.start + 3

(***************************************************************************)
(* The primitives called directly (specification PrimSpec).                 *)
(***************************************************************************)
\* Where the lexer stands: current and the (line, column) position.
Cursor(L) == <<L.current, L.pos.line, L.pos.column>>

CheckOps ==
    {"check_chars", "check_string", "check_strings", "check_digit",
     "check_reserved", "check_punct", "check_string_opener",
     "check_int_prefix", "check_float_prefix"}

\* C21: every check_ primitive leaves current and the (line, column)
\* position as they were before the call, whatever it returns, also when a
\* number sign stands before the prefix that is tested.  Stated for
\* NUL-terminated sources.
C21_CheckLeavesCursor ==
    (NulTerminated /\ call.op \in CheckOps) =>
        Cursor(lexer) = Cursor(call.before)

MatchOps ==
    {"match_chars", "match_string", "match_string_n", "match_strings",
     "match_digit", "match_punct", "match_string_opener",
     "match_int_prefix", "match_float_prefix"}

\* C24: a match_ primitive that reports failure (false, NULL or 0) leaves
\* current and the position as they were: when match_int_prefix or
\* match_float_prefix returns 0 no number sign was consumed, and when
\* match_string_n returns false no byte was consumed.  Stated for
\* NUL-terminated sources.
C24_FailedMatchLeavesCursor ==
    (NulTerminated /\ call.op \in MatchOps /\ call.ret = 0) =>
        Cursor(lexer) = Cursor(call.before)

\* C26: no byte at an offset at or beyond `end` is inspected: every offset
\* whose byte check_chars, advance_by or recalc_column inspects lies in
\* start .. end - 1, also when the cursor stands at the end of the source.
C26_ReadsWithinSource ==
    call.op \in {"check_chars", "advance_by", "recalc_column"} =>
        \A p \in call.reads : lexer.start <= p /\ p < lexer.end

\* The lexer after k calls of lxl_lexer__rewind.
RECURSIVE Rewound(_, _)
Rewound(L, k) == IF k = 0 THEN L ELSE Rewound(lxl_lexer__rewind(L).lx, k - 1)

\* C27: with at least n bytes remaining, advance_by(n) leaves current, line
\* and column as n successive calls of advance leave them, also over spans
\* that contain a line feed or end just before one; with at least n bytes
\* consumed, rewind_by(n) leaves them as n successive calls of rewind do.
\* Stated for NUL-terminated sources and for the first call on a lexer
\* that was brought to its place by advance alone.
C27_AdvanceByIsRepeatedAdvance ==
    (NulTerminated /\ call.seq = 1) =>
        /\ (call.op = "advance_by"
              /\ call.n <= lxl_lexer__tail_length(call.before)) =>
               Cursor(lexer) = Cursor(Advanced(call.before, call.n))
        /\ (call.op = "rewind_by"
              /\ call.n <= lxl_lexer__head_length(call.before)) =>
               Cursor(lexer) = Cursor(Rewound(call.before, call.n))

\* C28: when the cursor is not at the end, advance followed by rewind
\* brings current, line and column back to what they were, whatever the
\* byte, a line feed that ends a non-empty line included; rewind at the
\* start returns false and changes nothing; advance at the end returns a
\* null byte and changes nothing.  Stated for the first call on a lexer
\* that was brought to its place by advance alone.
C28_RewindUndoesAdvance ==
    call.seq = 1 =>
        /\ (call.op = "advance" /\ ~lxl_lexer__is_at_end(call.before)) =>
               /\ lxl_lexer__rewind(lexer).ret
               /\ Cursor(lxl_lexer__rewind(lexer).lx) = Cursor(call.before)
        /\ (call.op = "advance" /\ lxl_lexer__is_at_end(call.before)) =>
               call.byte = NUL /\ lexer = call.before
        /\ (call.op = "rewind" /\ lxl_lexer__is_at_start(call.before)) =>
               call.ret = 0 /\ lexer = call.before

\* C30: a string is opened only where the bytes at the cursor are the
\* complete opener of a configured delimiter pair: when check_string_opener
\* or match_string_opener returns a pair, the source holds that pair's
\* whole opener at the cursor, and match_string_opener has consumed exactly
\* the opener's length, also for an opener of more than one byte.  Stated
\* for NUL-terminated sources.
C30_CompleteOpener ==
    (NulTerminated /\ call.ret # 0
       /\ call.op \in {"check_string_opener", "match_string_opener"}) =>
        /\ SrcHas(call.before.current, cfg.line_string_delims[call.ret].opener)
        /\ call.op = "match_string_opener" =>
               lexer.current = call.before.current
                               + Len(cfg.line_string_delims[call.ret].opener)

(***************************************************************************)
(* Error spans, hooks, line comments, punctuation, numbers, line feeds.     *)
(***************************************************************************)
\* The offset after the number sign and the integer prefix that stand at p
\* (p itself where neither stands).
AfterSignAndPrefix(p) ==
    IF FirstAt(AfterSign(p), cfg.integer_prefixes) = 0 THEN AfterSign(p)
    ELSE AfterSign(p)
         + Len(cfg.integer_prefixes[FirstAt(AfterSign(p), cfg.integer_prefixes)])

\* C31: the span of an error token covers the bytes that were consumed
\* before the error was found: the span of an UNCLOSED_COMMENT token holds
\* the opener of the comment in which the source ends, and the span of an
\* INVALID_INTEGER or INVALID_FLOAT token holds the number sign and the
\* prefix that stand at its start.  Stated for NUL-terminated sources.
C31_ErrorSpanCoversConsumed ==
    (NulTerminated /\ Returned) =>
        /\ tok.token_type = LXL_LERR_UNCLOSED_COMMENT =>
               \E p \in tok.start..(tok.end - 1) : UnclosedBlockAt(p)
        /\ tok.token_type \in {LXL_LERR_INVALID_INTEGER, LXL_LERR_INVALID_FLOAT} =>
               tok.end >= AfterSignAndPrefix(tok.start)

\* The events of the last call that are un-lexes.
Unlexes == {i \in 1..Len(lexer.events) : lexer.events[i].what = "unlex"}

\* The hook that belongs to the un-lex made by the function `by`.
HookOf(by) ==
    IF by = "lex_float" THEN "before_unlex_float_hook" ELSE "before_unlex_int_hook"

\* C32: every un-lex (in lex_integer on zero digits, in lex_float on zero
\* digits in all, and in next_token's re-lex of an integer as a float) comes
\* right after the call of its hook, when that hook is set: the event before
\* it is the call of before_unlex_float_hook for lex_float, of
\* before_unlex_int_hook for the other two, made by the same function with
\* the cursor where the un-lex found it, that is before the rewind.  A hook
\* is called nowhere else.
C32_HookBeforeUnlex ==
    Returned =>
        /\ \A i \in Unlexes :
               cfg[HookOf(lexer.events[i].by)] =>
                   /\ i > 1
                   /\ lexer.events[i - 1] =
                          [lexer.events[i] EXCEPT
                              !.what = HookOf(lexer.events[i].by)]
        /\ \A i \in 1..Len(lexer.events) :
               lexer.events[i].what # "unlex" => i + 1 \in Unlexes

\* C32 witness: with both hooks set, one call on a NUL-terminated source
\* un-lexed in lex_integer, from
\* a place after the token's start, and then in lex_float, each time right
\* after its hook.
C32_Witness ==
    /\ Returned
    /\ NulTerminated
    /\ cfg.before_unlex_int_hook
    /\ cfg.before_unlex_float_hook
    /\ \E i \in Unlexes : /\ lexer.events[i].by = "lex_integer"
                          /\ lexer.events[i].at > lexer.token_start
                          /\ lexer.events[i - 1].what = "before_unlex_int_hook"
    /\ \E i \in Unlexes : /\ lexer.events[i].by = "lex_float"
                          /\ lexer.events[i - 1].what = "before_unlex_float_hook"

\* The offset of the first byte at or after p that is no blank (whitespace
\* other than a line feed).
RECURSIVE BlankEnd(_)
BlankEnd(p) ==
    IF p < Len(src) /\ InChars(src[p + 1], LXL_WHITESPACE_CHARS_NO_LF)
    THEN BlankEnd(p + 1) ELSE p

\* The offset of the first line feed at or after p (Len(src): none).
RECURSIVE LineFeedAfter(_)
LineFeedAfter(p) ==
    IF p < Len(src) /\ src[p + 1] # LF THEN LineFeedAfter(p + 1) ELSE p

\* C33: a line comment is skipped up to its line feed and not beyond.  When
\* a call finds, after blanks, a line comment whose line ends in a line
\* feed: with emit_line_endings true (and the line feed not collected into
\* a line ending before it) the call returns that line feed as a token of
\* line_ending_type; with emit_line_endings false the line feed is skipped
\* and the token returned starts after it.
C33_LineCommentStopsAtLineFeed ==
    [][(/\ lastOp' = "next"
        /\ ~lxl_lexer_is_finished(lexer)
        /\ FirstAt(BlankEnd(lexer.current), cfg.line_comment_openers) # 0
        /\ LineFeedAfter(lexer.current) < Len(src))
           => /\ (cfg.emit_line_endings
                    /\ ~LineFeedSkipped(lexer.previous_token_type))
                     => /\ tok'.start = LineFeedAfter(lexer.current)
                        /\ IsLineEnding(tok')
              /\ ~cfg.emit_line_endings
                     => tok'.start > LineFeedAfter(lexer.current)]_vars

\* C33 witness: with emit_line_endings true, the line feed after the
\* comment "#c" was returned as a line-ending token, after a word.
C33_Witness ==
    /\ Returned
    /\ cfg.emit_line_endings
    /\ Len(hist) = 2
    /\ tok = hist[2]
    /\ hist[1].end < tok.start
    /\ FirstAt(BlankEnd(hist[1].end), cfg.line_comment_openers) # 0
    /\ BlankEnd(hist[1].end) + 1 < tok.start
    /\ IsLineEnding(tok)

\* The string a is a prefix of the string b.
IsPrefix(a, b) == Len(a) <= Len(b) /\ SubSeq(b, 1, Len(a)) = a

\* The entries of puncts that stand after one of their own prefixes.
ShadowedPuncts ==
    {j \in 1..Len(cfg.puncts) :
         \E i \in 1..(j - 1) : IsPrefix(cfg.puncts[i], cfg.puncts[j])}

\* C34: where no line feed, string opener or number stands at the token's
\* start and an entry of puncts does, the token is the first such entry in
\* list order, not the longest: its span is that entry and its type the
\* element of punct_types with the same index.  So no token is the match of
\* an entry that is listed after one of its own prefixes.
C34_FirstPunctWins ==
    (/\ Returned
     /\ ~LXL_TOKEN_IS_END(tok)
     /\ tok.start < Len(src)
     /\ src[tok.start + 1] # LF
     /\ StringAt(tok.start) = {}
     /\ cfg.default_int_base = 0
     /\ cfg.default_float_base = 0
     /\ FirstAt(AfterSign(tok.start), cfg.integer_prefixes) = 0
     /\ FirstAt(AfterSign(tok.start), cfg.float_prefixes) = 0
     /\ FirstAt(tok.start, cfg.puncts) # 0)
        => /\ tok.end = tok.start + Len(cfg.puncts[FirstAt(tok.start, cfg.puncts)])
           /\ tok.token_type = cfg.punct_types[FirstAt(tok.start, cfg.puncts)]
           /\ FirstAt(tok.start, cfg.puncts) \notin ShadowedPuncts

\* C34 witness: "<===<" gave "<=" (listed before its prefix "<"), then "="
\* although "==" stands there (listed after its prefix "="), then "=" and
\* "<".
C34_Witness ==
    /\ Returned
    /\ Len(hist) = 4
    /\ tok = hist[4]
    /\ ShadowedPuncts # {}
    /\ SrcHas(hist[1].start, cfg.puncts[3])
    /\ hist[1].token_type = cfg.punct_types[3]
    /\ hist[1].end = hist[1].start + 2
    /\ \E j \in ShadowedPuncts : SrcHas(hist[2].start, cfg.puncts[j])
    /\ hist[2].token_type = cfg.punct_types[1]
    /\ hist[2].end = hist[2].start + 1
    /\ tok.token_type = cfg.punct_types[4]

\* The last call un-lexed in next_token, to re-lex an integer as a float.
Relexed == \E i \in Unlexes : lexer.events[i].by = "next_token"

\* C35: when the re-lex of an integer as a float fails because no float
\* prefix stands at the token's start, the call returns INVALID_INTEGER and
\* consumes nothing after the attempt: no integer suffix is matched, so the
\* cursor is left where lxl_lexer__match_float_prefix left it, after the
\* number sign if one stands at the token's start and at the token's start
\* otherwise.  Stated for NUL-terminated sources.
C35_NoSuffixAfterFailedRelex ==
    (/\ NulTerminated
     /\ Returned
     /\ Relexed
     /\ tok.token_type = LXL_LERR_INVALID_INTEGER)
        => /\ lexer.current = AfterSign(tok.start)
           /\ tok.end = lexer.current

\* An integer stands at the start of the token t and its digits end at e: no
\* line feed or string opener stands there, and [t.start, e) is a sign, a
\* prefix and a run with a digit in it.
IntegerStandsAt(t, e) ==
    /\ ~LXL_TOKEN_IS_END(t)
    /\ t.start < Len(src)
    /\ src[t.start + 1] # LF
    /\ StringAt(t.start) = {}
    /\ cfg.default_int_base # 0
    /\ IntegerSpan(t.start, e)

\* C36: with integers and floats both enabled, digits that no radix
\* separator follows are returned as a token of default_int_type that ends
\* after the digits, or after the integer suffix that follows them, and
\* the call makes no re-lex as a float; with default_float_base = 0, digits
\* that a radix separator follows are a token of default_int_type that ends
\* before the separator.
C36_IntegerBeforeFloat ==
    Returned =>
        \A e \in tok.start..Len(src) :
            IntegerStandsAt(tok, e) =>
                /\ (cfg.default_float_base # 0
                      /\ FirstAt(e, cfg.radix_separators) = 0)
                       => /\ tok.token_type = cfg.default_int_type
                          /\ tok.end = AfterIntSuffix(e)
                          /\ ~Relexed
                /\ (cfg.default_float_base = 0
                      /\ FirstAt(e, cfg.radix_separators) # 0)
                       => /\ tok.token_type = cfg.default_int_type
                          /\ tok.end = e

\* C36 witness: with floats enabled, digits and the integer suffix after
\* them were returned as one integer token without a re-lex.
C36_Witness ==
    /\ NulTerminated
    /\ Returned
    /\ cfg.default_float_base # 0
    /\ tok.token_type = cfg.default_int_type
    /\ ~Relexed
    /\ \E e \in (tok.start + 1)..(Len(src) - 1) :
           /\ IntegerStandsAt(tok, e)
           /\ FirstAt(e, cfg.integer_suffixes) # 0
           /\ tok.end = AfterIntSuffix(e)
           /\ tok.end > e

\* The token t was made from a line feed of the source: it starts on one
\* and is not empty.
FromLineFeed(t) ==
    /\ t.start < Len(src)
    /\ src[t.start + 1] = LF
    /\ t.end > t.start

\* C37: the two assertions that guard the line feed never fail: no call
\* of lxl_lexer_next_token ends in a failure of the assertion of
\* skip_whitespace or of the one at the token start, and a token made from
\* a line feed is of line_ending_type and is made where
\* lxl_lexer__can_emit_line_ending held for the lexer the call was given.
\* With emit_line_endings false no returned token is made from a line feed.
C37_LineFeedAssertionsHold ==
    [][/\ ~lexer'.lf_assert_failed
       /\ (lastOp' = "next" /\ FromLineFeed(tok'))
              => /\ lxl_lexer__can_emit_line_ending(lexer)
                 /\ tok'.token_type = cfg.line_ending_type
       /\ (lastOp' = "next" /\ ~cfg.emit_line_endings)
              => ~FromLineFeed(tok')]_vars

\* A token that follows a run of line feeds collected into one line ending.
C37_Witness ==
    /\ Returned
    /\ cfg.emit_line_endings
    /\ cfg.collect_line_endings
    /\ Len(hist) >= 3
    /\ tok.end > tok.start
    /\ src[tok.start] = LF
    /\ ~FromLineFeed(tok)
    /\ hist[Len(hist) - 1].token_type = cfg.line_ending_type

(***************************************************************************)
(* Zero bytes in the source, and how a pass ends                            *)
(***************************************************************************)
\* C38: UNCLOSED_COMMENT and, in a multiline string, UNCLOSED_STRING are
\* raised only with the cursor at the end of the source: after a call that
\* raised one of them the cursor stands at `end`, whatever bytes the source
\* holds, zero bytes included.
C38_UnclosedOnlyAtEnd ==
    Returned =>
        /\ lexer.raised = LXL_LERR_UNCLOSED_COMMENT
               => lexer.current = lexer.end
        /\ lexer.raised = LXL_LERR_UNCLOSED_STRING
               => \A s \in StringAt(tok.start) :
                      s.kind = LXL_STRING_MULTILINE => lexer.current = lexer.end

\* C39: the status FINISHED_ABNORMAL is never reached and no END_ABNORMAL
\* token is returned: whatever calls of lxl_lexer_next_token and
\* lxl_lexer_reset were made, error tokens among their results or not, a
\* lexer that has finished is in FINISHED and the call that finished it, and
\* every call after it, returned END.
C39_NeverAbnormal ==
    /\ lexer.status # LXL_LSTS_FINISHED_ABNORMAL
    /\ tok.token_type # LXL_TOKENS_END_ABNORMAL
    /\ \A i \in 1..Len(hist) : hist[i].token_type # LXL_TOKENS_END_ABNORMAL
    /\ \A i \in 1..Len(first.toks) :
           first.toks[i].token_type # LXL_TOKENS_END_ABNORMAL
    /\ (Returned /\ lxl_lexer_is_finished(lexer))
           => /\ lexer.status = LXL_LSTS_FINISHED
              /\ tok.token_type = LXL_TOKENS_END

\* The second pass over a source ended, after a reset of the finished lexer,
\* and both passes returned an error token before END.
C39_Witness ==
    /\ Returned
    /\ resets = 1
    /\ first.complete
    /\ lexer.status = LXL_LSTS_FINISHED
    /\ tok.token_type = LXL_TOKENS_END
    /\ \E i \in 1..Len(hist) : hist[i].token_type <= LXL_LERR_GENERIC
    /\ \E i \in 1..Len(first.toks) : first.toks[i].token_type <= LXL_LERR_GENERIC

====
